---- MODULE Spec2Model ----
(***************************************************************************)
(* A model of omaskery/teffy: the Trace Event Format codec (pkg/io) and    *)
(* its event model (pkg/events).                                           *)
(*                                                                         *)
(* Bytes.  The sink of the streaming writer and the input of               *)
(* ParseJsonArray are sequences of tokens [k, v].  The structural          *)
(* characters of JSON are the tokens with k in "[", "]", ",", "{", "}"     *)
(* and " " (white space); a member `"ph":"B"` of an event object is the    *)
(* token [k |-> "ph", v |-> "B"].  A cut of the output falls between two   *)
(* tokens, so an event can be cut after its opening brace, between its    *)
(* members or before its closing brace.                                    *)
(***************************************************************************)
EXTENDS Integers, Sequences, FiniteSets, TLC

\* ----------------------------------------------------------------------
\* Bounds of the model
\* ----------------------------------------------------------------------

\* the number of Write / Close calls made on one streaming writer
MaxCalls == 3

\* the number of elements of an array-form or object-form input
MaxElems == 2

\* the number of categories of an event
MaxCats == 2

\* the number of characters of a category
MaxCatLen == 1

\* the longest sequence of SetStackFrame calls on a container
MaxFrames == 2

\* the most calls made on a tracer and its durations
MaxTracerCalls == 3

\* the latest time the tracer's clock shows
MaxTime == 2

\* ----------------------------------------------------------------------
\* Tokens
\* ----------------------------------------------------------------------

Tok(k, v) == [k |-> k, v |-> v]

LBracket == Tok("[", "")

RBracket == Tok("]", "")

Comma == Tok(",", "")

LBrace == Tok("{", "")

RBrace == Tok("}", "")

Space == Tok(" ", "")

\* the empty mapping (a Go map with no entries, or a nil map)
EmptyMap == <<>>

\* has(m, k): the `v, ok := m[k]` test of a Go map
has(m, k) == k \in DOMAIN m

\* the value of key k in the JSON object m, or d when the key is absent:
\* encoding/json leaves a struct field at its zero value when its key is absent
field(m, k, d) == IF k \in DOMAIN m THEN m[k] ELSE d

\* ----------------------------------------------------------------------
\* pkg/events: phases and variants
\* ----------------------------------------------------------------------

PhaseBeginDuration == "B"

PhaseEndDuration == "E"

PhaseComplete == "X"

PhaseInstant == "I"

PhaseInstantLegacy == "i"

PhaseCounter == "C"

PhaseAsyncBegin == "b"

PhaseAsyncEnd == "e"

PhaseAsyncInstant == "n"

PhaseFlowStart == "s"

PhaseFlowInstant == "t"

PhaseFlowFinish == "f"

PhaseObjectCreated == "N"

PhaseObjectSnapshot == "O"

PhaseObjectDeleted == "D"

PhaseMetadata == "M"

PhaseGlobalMemoryDump == "V"

PhaseProcessMemoryDump == "v"

PhaseMark == "R"

PhaseClockSync == "c"

PhaseContextEnter == "("

PhaseContextExit == ")"

PhaseLinkIds == "="

InstantScopeThread == "t"

InstantScopeProcess == "p"

InstantScopeGlobal == "g"

MetadataKindProcessName == "process_name"

MetadataKindProcessLabels == "process_labels"

MetadataKindProcessSortIndex == "process_sort_index"

MetadataKindThreadName == "thread_name"

MetadataKindThreadSortIndex == "thread_sort_index"

\* the Phase() method of each event type
Phase(variant) ==
  CASE variant = "BeginDuration" -> PhaseBeginDuration
    [] variant = "EndDuration" -> PhaseEndDuration
    [] variant = "Complete" -> PhaseComplete
    [] variant = "Instant" -> PhaseInstant
    [] variant = "Counter" -> PhaseCounter
    [] variant = "AsyncBegin" -> PhaseAsyncBegin
    [] variant = "AsyncEnd" -> PhaseAsyncEnd
    [] variant = "AsyncInstant" -> PhaseAsyncInstant
    [] variant = "FlowStart" -> PhaseFlowStart
    [] variant = "FlowInstant" -> PhaseFlowInstant
    [] variant = "FlowFinish" -> PhaseFlowFinish
    [] variant = "ObjectCreated" -> PhaseObjectCreated
    [] variant = "ObjectSnapshot" -> PhaseObjectSnapshot
    [] variant = "ObjectDeleted" -> PhaseObjectDeleted
    [] variant \in {"MetadataProcessName", "MetadataThreadName",
                    "MetadataProcessLabels", "MetadataProcessSortIndex",
                    "MetadataThreadSortIndex", "MetadataMisc"} -> PhaseMetadata
    [] variant = "GlobalMemoryDump" -> PhaseGlobalMemoryDump
    [] variant = "ProcessMemoryDump" -> PhaseProcessMemoryDump
    [] variant = "Mark" -> PhaseMark
    [] variant = "ClockSync" -> PhaseClockSync
    [] variant = "ContextEnter" -> PhaseContextEnter
    [] variant = "ContextExit" -> PhaseContextExit
    [] variant = "LinkIds" -> PhaseLinkIds

\* the event types whose struct embeds EventWithArgs
HasArgs(variant) ==
  variant \in {"BeginDuration", "EndDuration", "Complete", "AsyncBegin",
               "AsyncEnd", "AsyncInstant", "FlowStart", "FlowInstant",
               "FlowFinish", "ObjectSnapshot", "MetadataMisc",
               "GlobalMemoryDump", "ProcessMemoryDump", "Mark", "ClockSync",
               "ContextEnter", "ContextExit", "LinkIds"}

\* A JSON value of an args object: a string, a number or null.
StrVal(s) == [t |-> "str", s |-> s, n |-> 0]

NumVal(n) == [t |-> "num", s |-> "", n |-> n]

NullVal == [t |-> "null", s |-> "", n |-> 0]

\* An optional integer (a *int64): unset is nil.
NoInt == [set |-> FALSE, n |-> 0]

SomeInt(n) == [set |-> TRUE, n |-> n]

\* A StackFrame
StackFrame(category, name, parent) ==
  [Category |-> category, Name |-> name, Parent |-> parent]

\* A *StackTrace: nil, or the frames of Trace in order.
NilStack == [nil |-> TRUE, trace |-> <<>>]

\* the StackTrace of frames that have a name and nothing else
StackOf(names) ==
  [nil |-> FALSE,
   trace |-> [i \in 1..Len(names) |-> StackFrame("", names[i], "")]]

\* The zero value of an event struct.  Every event is this record with its
\* variant and the fields of that variant set.
\* A text whose characters matter (a category, the cat member) is the
\* sequence of its characters; Categories is a sequence of such texts.
\* scope is Instant.Scope or the Scope of an async event.
ZeroEvent ==
  [variant |-> "", name |-> "", ts |-> 0, args |-> EmptyMap, scope |-> "",
   str |-> "", sortIndex |-> 0, syncId |-> "", issueTs |-> NoInt,
   linkedId |-> "", categories |-> <<>>, stackTrace |-> NilStack,
   endStackTrace |-> NilStack, id |-> "", duration |-> 0,
   processId |-> NoInt]

\* the absent event of a (nil, err) return
NilEvent == [ZeroEvent EXCEPT !.variant = "nil"]

\* ----------------------------------------------------------------------
\* pkg/io: the event encoder
\* ----------------------------------------------------------------------

\* The zero value of the json structs (jsonEventCore and the structs that
\* embed it): the members by their wire names.
ZeroJson ==
  [ph |-> "", name |-> "", cat |-> <<>>, ts |-> 0, args |-> EmptyMap,
   stack |-> <<>>, sf |-> "", dur |-> 0, estack |-> <<>>, esf |-> "",
   s |-> "", id |-> "", scope |-> "", pid |-> NoInt]

\* strings.Join(elems, ","): the texts with one "," between neighbours
RECURSIVE JoinComma(_)
JoinComma(elems) ==
  IF elems = <<>> THEN <<>>
  ELSE IF Len(elems) = 1 THEN elems[1]
  ELSE elems[1] \o <<",">> \o JoinComma(Tail(elems))

\* writeStackInfo: the names of the frames; nothing for a nil trace
writeStackInfo(trace) ==
  IF trace.nil THEN <<>>
  ELSE [i \in 1..Len(trace.trace) |-> trace.trace[i].Name]

\* the IssueTs pointer stored in an interface{}: a nil *int64 is a typed nil,
\* which is not equal to the untyped nil
PtrVal(p) == IF p.set THEN NumVal(p.n) ELSE [t |-> "nilptr", s |-> "", n |-> 0]

\* a writeJsonEventCore that writes the deprecated code of an async begin
writeJsonEventCoreLegacy(e) ==
  [ZeroJson EXCEPT !.ph = IF e.variant = "AsyncBegin" THEN "S"
                          ELSE Phase(e.variant),
                   !.name = e.name, !.ts = e.ts,
                   !.cat = JoinComma(e.categories), !.pid = e.processId]

writeJsonEventCore(e) ==
  [ZeroJson EXCEPT !.ph = Phase(e.variant), !.name = e.name, !.ts = e.ts,
                   !.cat = JoinComma(e.categories), !.pid = e.processId]

writeJsonEventCoreWithName(e, name) ==
  [writeJsonEventCore(e) EXCEPT !.name = name]

\* mergeDicts copies the entries of a, then those of b, skipping nil values
mergeDicts(a, b) ==
  LET ka == {k \in DOMAIN a : a[k] # NullVal}
      kb == {k \in DOMAIN b : b[k] # NullVal}
  IN [k \in ka \cup kb |-> IF k \in kb THEN b[k] ELSE a[k]]

\* writeJsonEvent: the type switch over the event; an event type without a
\* case falls through to the "unknown phase" error
writeJsonEvent(e) ==
  LET core == writeJsonEventCore(e)
      ok(j) == [err |-> FALSE, j |-> j]
      meta(kind, key, val) ==
        ok([writeJsonEventCoreWithName(e, kind) EXCEPT
              !.args = [k \in {key} |-> val]])
  IN CASE e.variant \in {"BeginDuration", "EndDuration"} ->
            ok([core EXCEPT !.args = e.args,
                            !.stack = writeStackInfo(e.stackTrace)])
       [] e.variant = "Complete" ->
            ok([core EXCEPT !.args = e.args,
                            !.stack = writeStackInfo(e.stackTrace),
                            !.estack = writeStackInfo(e.endStackTrace),
                            !.dur = e.duration])
       [] e.variant = "Instant" ->
            ok([core EXCEPT !.stack = writeStackInfo(e.stackTrace),
                            !.s = e.scope])
       [] e.variant \in {"AsyncBegin", "AsyncInstant", "AsyncEnd"} ->
            ok([core EXCEPT !.args = e.args, !.id = e.id, !.scope = e.scope])
       [] e.variant \in {"ObjectSnapshot", "ContextEnter", "ContextExit"} ->
            ok([core EXCEPT !.args = e.args, !.id = e.id])
       [] e.variant \in {"ObjectCreated", "ObjectDeleted"} ->
            ok([core EXCEPT !.id = e.id])
       [] e.variant \in {"MetadataMisc", "GlobalMemoryDump",
                         "ProcessMemoryDump", "Mark", "Counter"} ->
            ok([core EXCEPT !.args = e.args])
       [] e.variant = "MetadataProcessName" ->
            meta(MetadataKindProcessName, "name", StrVal(e.str))
       [] e.variant = "MetadataProcessLabels" ->
            meta(MetadataKindProcessLabels, "labels", StrVal(e.str))
       [] e.variant = "MetadataProcessSortIndex" ->
            meta(MetadataKindProcessSortIndex, "sort_index", NumVal(e.sortIndex))
       [] e.variant = "MetadataThreadName" ->
            meta(MetadataKindThreadName, "name", StrVal(e.str))
       [] e.variant = "MetadataThreadSortIndex" ->
            meta(MetadataKindThreadSortIndex, "sort_index", NumVal(e.sortIndex))
       [] e.variant = "ClockSync" ->
            ok([core EXCEPT !.args =
                  mergeDicts(e.args, [k \in {"sync_id", "issue_ts"} |->
                     IF k = "sync_id" THEN StrVal(e.syncId)
                                      ELSE PtrVal(e.issueTs)])])
       [] e.variant = "LinkIds" ->
            ok([core EXCEPT !.args =
                  mergeDicts(e.args, [k \in {"linked_id"} |-> StrVal(e.linkedId)]),
                !.id = e.id])
       [] OTHER -> [err |-> TRUE, j |-> ZeroJson]

\* json.Marshal of one args value: a nil pointer is written as null
MarshalVal(v) == IF v.t = "nilptr" THEN NullVal ELSE v

\* json.Marshal of a json struct: the JSON object, as a mapping from the keys
\* that are written to their values.  ph, name and ts are always written;
\* the other members carry omitempty.
Marshal(j) ==
  LET keys == {"ph", "name", "ts"}
                \cup (IF j.args # EmptyMap THEN {"args"} ELSE {})
                \cup {k \in {"cat", "stack", "estack"} : j[k] # <<>>}
                \cup {k \in {"sf", "esf", "s", "id", "scope"} : j[k] # ""}
                \cup (IF j.dur # 0 THEN {"dur"} ELSE {})
                \cup (IF j.pid.set THEN {"pid"} ELSE {})
  IN [k \in keys |->
        IF k = "args" THEN [a \in DOMAIN j.args |-> MarshalVal(j.args[a])]
        ELSE IF k = "pid" THEN j.pid.n
        ELSE j[k]]

\* the order in which encoding/json writes the members of an event object:
\* the order of the struct fields
KeyOrder ==
  <<"ph", "name", "cat", "ts", "pid", "args", "stack", "sf", "dur", "estack", "esf",
    "s", "id", "scope">>

\* the bytes of a JSON object: its members between braces
ObjectBytes(obj) ==
  LET keys == SelectSeq(KeyOrder, LAMBDA k : k \in DOMAIN obj)
  IN <<LBrace>> \o [i \in 1..Len(keys) |-> Tok(keys[i], obj[keys[i]])]
       \o <<RBrace>>

\* marshalJsonEvent: writeJsonEvent, then json.Marshal
marshalJsonEvent(e) ==
  LET w == writeJsonEvent(e)
  IN IF w.err THEN [err |-> TRUE, msg |-> <<>>]
     ELSE [err |-> FALSE, msg |-> ObjectBytes(Marshal(w.j))]

\* ----------------------------------------------------------------------
\* pkg/io: the event decoder
\* ----------------------------------------------------------------------

\* The error of a return value: NoErr is the nil error.
NoErr == ""

ErrInvalidDisplayTimeUnit == "invalid display time unit"

ErrInvalidDataType == "data found in file does not match expected type"

ErrSyntaxError == "file format contained a syntax error"

ErrUnknownPhase == "unknown phase encountered"

ErrNotFound == "expected but was not found"

ErrJson == "encoding/json error"

ErrUnexpectedEOF == "unexpected EOF"

\* json.Unmarshal of an event object into the json structs: a key that is
\* absent leaves the field at its zero value
Unmarshal(obj) ==
  [k \in DOMAIN ZeroJson |->
     IF k = "pid" THEN (IF has(obj, k) THEN SomeInt(obj[k]) ELSE NoInt)
     ELSE field(obj, k, ZeroJson[k])]

\* a decodeEventPhase that takes an absent ph for a begin duration
decodeEventPhaseDefault(obj) == field(obj, "ph", PhaseBeginDuration)

\* decodeEventPhase: only the ph member is read
decodeEventPhase(obj) == field(obj, "ph", "")

\* strings.Split(str, ","): the texts between the commas of str
RECURSIVE SplitComma(_)
SplitComma(str) ==
  LET commas == {i \in 1..Len(str) : str[i] = ","}
      first == CHOOSE i \in commas : \A i2 \in commas : i <= i2
  IN IF commas = {} THEN <<str>>
     ELSE <<SubSeq(str, 1, first - 1)>>
            \o SplitComma(SubSeq(str, first + 1, Len(str)))

\* a decodeEventCore that takes the whole cat member as one category
decodeEventCoreNoSplit(j, variant) ==
  [ZeroEvent EXCEPT !.variant = variant, !.name = j.name, !.ts = j.ts,
                    !.categories = IF j.cat # <<>> THEN <<j.cat>> ELSE <<>>,
                    !.processId = j.pid]

\* decodeEventCore: the common fields; an empty cat gives no categories
decodeEventCore(j, variant) ==
  [ZeroEvent EXCEPT !.variant = variant, !.name = j.name, !.ts = j.ts,
                    !.categories = IF j.cat # <<>> THEN SplitComma(j.cat)
                                   ELSE <<>>,
                    !.processId = j.pid]

\* decodeRawStackTrace stopping after the first entry
decodeRawStackTraceFirst(trace) ==
  IF Len(trace) < 1 THEN NilStack ELSE StackOf(<<Head(trace)>>)

\* decodeRawStackTrace: nil for an empty list, else a frame for each name
decodeRawStackTrace(trace) ==
  IF Len(trace) < 1 THEN NilStack ELSE StackOf(trace)

\* getIntEntry: (nil, nil) when the key is absent, the number when the value
\* is a float64, ErrInvalidDataType otherwise
getIntEntry(args, key) ==
  IF ~has(args, key) THEN [err |-> NoErr, v |-> NoInt]
  ELSE IF args[key].t = "num" THEN [err |-> NoErr, v |-> SomeInt(args[key].n)]
  ELSE [err |-> ErrInvalidDataType, v |-> NoInt]

\* a requireIntEntry that returns the zero value instead of the entry
requireIntEntryZero(args, key) ==
  LET g == getIntEntry(args, key)
  IN IF g.err # NoErr THEN [err |-> g.err, v |-> 0]
     ELSE IF ~g.v.set THEN [err |-> ErrNotFound, v |-> 0]
     ELSE [err |-> NoErr, v |-> 0]

requireIntEntry(args, key) ==
  LET g == getIntEntry(args, key)
  IN IF g.err # NoErr THEN [err |-> g.err, v |-> 0]
     ELSE IF ~g.v.set THEN [err |-> ErrNotFound, v |-> 0]
     ELSE [err |-> NoErr, v |-> g.v.n]

\* getStrEntry: (nil, nil) when the key is absent, the string when the value
\* is a string, ErrInvalidDataType otherwise
getStrEntry(args, key) ==
  IF ~has(args, key) THEN [err |-> NoErr, set |-> FALSE, v |-> ""]
  ELSE IF args[key].t = "str" THEN [err |-> NoErr, set |-> TRUE, v |-> args[key].s]
  ELSE [err |-> ErrInvalidDataType, set |-> FALSE, v |-> ""]

\* a requireStrEntry that takes an absent entry for an empty string
requireStrEntryLenient(args, key) ==
  LET g == getStrEntry(args, key)
  IN IF g.err # NoErr THEN [err |-> g.err, v |-> ""]
     ELSE [err |-> NoErr, v |-> g.v]

requireStrEntry(args, key) ==
  LET g == getStrEntry(args, key)
  IN IF g.err # NoErr THEN [err |-> g.err, v |-> ""]
     ELSE IF ~g.set THEN [err |-> ErrNotFound, v |-> ""]
     ELSE [err |-> NoErr, v |-> g.v]

\* strconv.ParseFloat on the spellings the model uses
FloatOf(str) ==
  CASE str = "0" -> 0 [] str = "1" -> 1 [] str = "2" -> 2 [] str = "24" -> 24
    [] OTHER -> -1

IsNumeric(str) == str \in {"0", "1", "2", "24"}

\* a jsonCounterEvent.UnmarshalJSON that keeps the number field of every
\* value and never parses the string
CounterValuesNumberOnly(args) ==
  [err |-> NoErr, v |-> [k \in DOMAIN args |-> NumVal(args[k].n)]]

\* jsonCounterEvent.UnmarshalJSON: each value is read as a numberOrString; a
\* non-empty string is parsed as a float, anything else keeps the number
CounterValues(args) ==
  LET bad == {k \in DOMAIN args : args[k].t = "str" /\ args[k].s # ""
                                    /\ ~IsNumeric(args[k].s)}
  IN IF bad # {} THEN [err |-> ErrJson, v |-> EmptyMap]
     ELSE [err |-> NoErr,
           v |-> [k \in DOMAIN args |->
                    IF args[k].t = "str" /\ args[k].s # ""
                    THEN NumVal(FloatOf(args[k].s))
                    ELSE NumVal(args[k].n)]]

\* parseJsonEvent: the switch over the phase of a raw event object
parseJsonEvent(obj) ==
  LET phase == decodeEventPhase(obj)
      j == Unmarshal(obj)
      ok(e) == [err |-> NoErr, event |-> e]
      fail(err) == [err |-> err, event |-> NilEvent]
      withArgs(variant) == ok([decodeEventCore(j, variant) EXCEPT !.args = j.args])
      withStack(variant) ==
        ok([decodeEventCore(j, variant) EXCEPT
              !.args = j.args, !.stackTrace = decodeRawStackTrace(j.stack)])
      metaStr(variant, key) ==
        LET r == requireStrEntry(j.args, key)
        IN IF r.err # NoErr THEN fail(r.err)
           ELSE ok([decodeEventCore(j, variant) EXCEPT !.str = r.v])
      metaInt(variant, key) ==
        LET r == requireIntEntry(j.args, key)
        IN IF r.err # NoErr THEN fail(r.err)
           ELSE ok([decodeEventCore(j, variant) EXCEPT !.sortIndex = r.v])
  IN CASE phase = PhaseBeginDuration -> withStack("BeginDuration")
       [] phase = PhaseEndDuration -> withStack("EndDuration")
       [] phase = PhaseComplete ->
            ok([decodeEventCore(j, "Complete") EXCEPT
                  !.args = j.args,
                  !.stackTrace = decodeRawStackTrace(j.stack),
                  !.endStackTrace = decodeRawStackTrace(j.estack)])
       [] phase = PhaseInstant ->
            ok([decodeEventCore(j, "Instant") EXCEPT
                  !.stackTrace = decodeRawStackTrace(j.stack),
                  !.scope = IF j.s = "" THEN InstantScopeGlobal ELSE j.s])
       [] phase = PhaseCounter ->
            LET c == CounterValues(j.args)
            IN IF c.err # NoErr THEN fail(c.err)
               ELSE ok([decodeEventCore(j, "Counter") EXCEPT !.args = c.v])
       [] phase = "S" -> withArgs("AsyncBegin")
       [] phase = "T" -> withArgs("AsyncInstant")
       [] phase = "p" -> withArgs("AsyncInstant")
       [] phase = "F" -> withArgs("AsyncEnd")
       [] phase = PhaseAsyncBegin -> withArgs("AsyncBegin")
       [] phase = PhaseAsyncInstant -> withArgs("AsyncInstant")
       [] phase = PhaseAsyncEnd -> withArgs("AsyncEnd")
       [] phase = PhaseObjectCreated -> ok(decodeEventCore(j, "ObjectCreated"))
       [] phase = PhaseObjectSnapshot -> withArgs("ObjectSnapshot")
       [] phase = PhaseObjectDeleted -> ok(decodeEventCore(j, "ObjectDeleted"))
       [] phase = PhaseMetadata ->
            CASE j.name = MetadataKindProcessName -> metaStr("MetadataProcessName", "name")
              [] j.name = MetadataKindProcessLabels -> metaStr("MetadataProcessLabels", "labels")
              [] j.name = MetadataKindProcessSortIndex ->
                   metaInt("MetadataProcessSortIndex", "sort_index")
              [] j.name = MetadataKindThreadName -> metaStr("MetadataThreadName", "name")
              [] j.name = MetadataKindThreadSortIndex ->
                   metaInt("MetadataThreadSortIndex", "sort_index")
              [] OTHER -> withArgs("MetadataMisc")
       [] phase = PhaseGlobalMemoryDump -> withArgs("GlobalMemoryDump")
       [] phase = PhaseProcessMemoryDump -> withArgs("ProcessMemoryDump")
       [] phase = PhaseMark -> withArgs("Mark")
       [] phase = PhaseClockSync ->
            LET issueTs == getIntEntry(j.args, "issue_ts")
                syncId == requireStrEntry(j.args, "sync_id")
            IN IF issueTs.err # NoErr THEN fail(issueTs.err)
               ELSE IF syncId.err # NoErr THEN fail(syncId.err)
               ELSE ok([decodeEventCore(j, "ClockSync") EXCEPT
                          !.args = j.args, !.issueTs = issueTs.v,
                          !.syncId = syncId.v])
       [] phase = PhaseContextEnter -> withArgs("ContextEnter")
       [] phase = PhaseContextExit -> withArgs("ContextExit")
       [] phase = PhaseLinkIds ->
            LET linkedId == requireStrEntry(j.args, "linked_id")
            IN IF linkedId.err # NoErr THEN fail(linkedId.err)
               ELSE ok([decodeEventCore(j, "LinkIds") EXCEPT
                          !.args = j.args, !.linkedId = linkedId.v])
       [] OTHER -> fail(ErrUnknownPhase)

\* ----------------------------------------------------------------------
\* pkg/io: the container and ParseJsonArray
\* ----------------------------------------------------------------------

DisplayTimeNs == "ns"

DisplayTimeMs == "ms"

\* the TefData that both parsers start from
NewTefData ==
  [traceEvents |-> <<>>, displayTimeUnit |-> DisplayTimeMs,
   systemTraceEvents |-> "", powerTraceAsString |-> "",
   stackFrames |-> EmptyMap, controllerTraceDataKey |-> "traceEvents",
   metadata |-> EmptyMap]

\* the nil *TefData of a (nil, err) return
NilData == [nil |-> TRUE]

Parsed(data) == [err |-> NoErr, data |-> data]

Failed(err) == [err |-> err, data |-> NilData]

\* the position of the first byte at or after p that is not white space
\* (Len(buf) + 1 when there is none): the scan of Decoder.peek
RECURSIVE SkipSpace(_, _)
SkipSpace(buf, p) ==
  IF p > Len(buf) \/ buf[p].k # " " THEN p ELSE SkipSpace(buf, p + 1)

\* the position of the first structural byte at or after p, Len(buf) + 1
\* when there is none
RECURSIVE NextStructural(_, _)
NextStructural(buf, p) ==
  IF p > Len(buf) \/ buf[p].k \in {"[", "]", "{", "}", ","} THEN p
  ELSE NextStructural(buf, p + 1)

\* the JSON object whose members are the tokens of body (white space aside);
\* of two members with one key the later one stands
ObjectOf(body) ==
  LET keys == {body[i].k : i \in 1..Len(body)} \ {" "}
      last(k) == CHOOSE i \in 1..Len(body) :
                   /\ body[i].k = k
                   /\ \A i2 \in (i + 1)..Len(body) : body[i2].k # k
  IN [k \in keys |-> body[last(k)].v]

\* readValue without the io.EOF outcome: an input that ends before a value
\* starts is reported like one that ends inside a value
readValueNoEOF(buf, p) ==
  LET q == SkipSpace(buf, p)
      r == NextStructural(buf, q + 1)
  IN IF q > Len(buf) THEN [st |-> "unexpectedEOF", obj |-> EmptyMap, next |-> q]
     ELSE IF buf[q].k # "{" THEN [st |-> "syntax", obj |-> EmptyMap, next |-> q]
     ELSE IF r > Len(buf) THEN [st |-> "unexpectedEOF", obj |-> EmptyMap, next |-> r]
     ELSE IF buf[r].k # "}" THEN [st |-> "syntax", obj |-> EmptyMap, next |-> r]
     ELSE [st |-> "ok", obj |-> ObjectOf(SubSeq(buf, q + 1, r - 1)), next |-> r + 1]

\* Decoder.readValue followed by the copy into a json.RawMessage: the value
\* that starts at p.  io.EOF when nothing but white space is left,
\* io.ErrUnexpectedEOF when the input ends inside the value, a syntax error
\* when the bytes are not the start of a value.
readValue(buf, p) ==
  LET q == SkipSpace(buf, p)
      r == NextStructural(buf, q + 1)
  IN IF q > Len(buf) THEN [st |-> "EOF", obj |-> EmptyMap, next |-> q]
     ELSE IF buf[q].k # "{" THEN [st |-> "syntax", obj |-> EmptyMap, next |-> q]
     ELSE IF r > Len(buf) THEN [st |-> "unexpectedEOF", obj |-> EmptyMap, next |-> r]
     ELSE IF buf[r].k # "}" THEN [st |-> "syntax", obj |-> EmptyMap, next |-> r]
     ELSE [st |-> "ok", obj |-> ObjectOf(SubSeq(buf, q + 1, r - 1)), next |-> r + 1]

\* a ParseJsonArray that keeps what was decoded before the bad element
arrayEventKeep(result, err) == Parsed(result)

\* the return of ParseJsonArray when an element does not decode
arrayEventError(result, err) == Failed(err)

\* The loop of ParseJsonArray from position p.  afterValue is the token state
\* of the decoder: FALSE after "[" (tokenArrayStart), TRUE after an element
\* (tokenArrayComma), when Decode first requires and consumes a comma.
RECURSIVE arrayLoop(_, _, _, _)
arrayLoop(buf, p, afterValue, result) ==
  LET q == SkipSpace(buf, p)
      more == q <= Len(buf) /\ buf[q].k \notin {"]", "}"}
      start == IF afterValue THEN q + 1 ELSE q
      val == readValue(buf, start)
      event == parseJsonEvent(val.obj)
  IN IF ~more THEN Parsed(result)
     ELSE IF afterValue /\ buf[q].k # "," THEN Failed(ErrJson)
     ELSE IF val.st = "EOF" THEN Parsed(result)
     ELSE IF val.st = "unexpectedEOF" THEN Failed(ErrUnexpectedEOF)
     ELSE IF val.st = "syntax" THEN Failed(ErrJson)
     ELSE IF event.err # NoErr THEN arrayEventError(result, event.err)
     ELSE arrayLoop(buf, val.next, TRUE,
                    [result EXCEPT !.traceEvents = Append(@, event.event)])

\* ParseJsonArray: the first token must be "[", then the loop
ParseJsonArray(buf) ==
  LET q == SkipSpace(buf, 1)
  IN IF q > Len(buf) THEN Failed(ErrJson)
     ELSE IF buf[q].k # "[" THEN Failed(ErrSyntaxError)
     ELSE arrayLoop(buf, q + 1, FALSE, NewTefData)

\* ----------------------------------------------------------------------
\* pkg/io: ParseJsonObj and WriteJsonObject
\* ----------------------------------------------------------------------

\* json.Unmarshal of the top-level object into jsonObjectFile: the struct has
\* a field for each of these keys and for no other, and a key without a field
\* is skipped
jsonObjectFile(file) ==
  [TraceEvents |-> field(file, "traceEvents", <<>>),
   DisplayTimeUnit |-> field(file, "displayTimeUnit", ""),
   StackFrames |-> field(file, "stackFrames", EmptyMap),
   SystemTraceEvents |-> field(file, "systemTraceEvents", ""),
   PowerTraceAsString |-> field(file, "powerTraceAsString", ""),
   ControllerTraceDataKey |-> field(file, "controllerTraceDataKey", ""),
   Metadata |-> field(file, "otherData", EmptyMap)]

\* json.Unmarshal of one entry of stackFrames into stackFrame
stackFrame(f) ==
  [Category |-> field(f, "category", ""), Name |-> field(f, "name", ""),
   Parent |-> field(f, "parent", "")]

\* the loop of ParseJsonObj over the raw events
RECURSIVE parseEvents(_, _)
parseEvents(raws, done) ==
  IF raws = <<>> THEN [err |-> NoErr, events |-> done]
  ELSE LET event == parseJsonEvent(Head(raws))
       IN IF event.err # NoErr THEN [err |-> event.err, events |-> done]
          ELSE parseEvents(Tail(raws), Append(done, event.event))

\* the return of ParseJsonObj when an element does not decode
objEventError(result, err) == Failed(err)

\* ParseJsonObj without the default branch of its switch: a display time
\* unit it has no case for leaves the result at milliseconds
ParseJsonObjAnyUnit(file) ==
  LET jsonFile == jsonObjectFile(file)
      events == parseEvents(jsonFile.TraceEvents, <<>>)
      result ==
        [NewTefData EXCEPT
           !.displayTimeUnit = IF jsonFile.DisplayTimeUnit = DisplayTimeNs
                               THEN DisplayTimeNs ELSE DisplayTimeMs,
           !.powerTraceAsString = jsonFile.PowerTraceAsString,
           !.systemTraceEvents = jsonFile.SystemTraceEvents,
           !.controllerTraceDataKey =
              IF jsonFile.ControllerTraceDataKey # ""
              THEN jsonFile.ControllerTraceDataKey ELSE @,
           !.stackFrames = [id \in DOMAIN jsonFile.StackFrames |->
                              stackFrame(jsonFile.StackFrames[id])],
           !.traceEvents = events.events]
  IN IF events.err # NoErr THEN Failed(events.err) ELSE Parsed(result)

\* ParseJsonObj: the envelope fields, the frame table, then the events.
\* result.metadata is set when the result is made and not again.
ParseJsonObj(file) ==
  LET jsonFile == jsonObjectFile(file)
      unit == jsonFile.DisplayTimeUnit
      frames == [id \in DOMAIN jsonFile.StackFrames |->
                   stackFrame(jsonFile.StackFrames[id])]
      events == parseEvents(jsonFile.TraceEvents, <<>>)
      result ==
        [NewTefData EXCEPT
           !.displayTimeUnit = IF unit = DisplayTimeNs THEN DisplayTimeNs
                               ELSE DisplayTimeMs,
           !.powerTraceAsString = jsonFile.PowerTraceAsString,
           !.systemTraceEvents = jsonFile.SystemTraceEvents,
           !.controllerTraceDataKey =
              IF jsonFile.ControllerTraceDataKey # ""
              THEN jsonFile.ControllerTraceDataKey ELSE @,
           !.stackFrames = frames]
  IN IF unit \notin {"", DisplayTimeMs, DisplayTimeNs}
     THEN Failed(ErrInvalidDisplayTimeUnit)
     ELSE IF events.err # NoErr
          THEN objEventError([result EXCEPT !.traceEvents = events.events],
                             events.err)
     ELSE Parsed([result EXCEPT !.traceEvents = events.events])

\* json.Marshal of a stackFrame that leaves the parent out
MarshalFrameNoParent(f) ==
  [k \in {"category", "name"} |-> IF k = "category" THEN f.Category ELSE f.Name]

\* json.Marshal of a stackFrame: parent carries omitempty
MarshalFrame(f) ==
  LET keys == {"category", "name"} \cup (IF f.Parent # "" THEN {"parent"} ELSE {})
  IN [k \in keys |-> CASE k = "category" -> f.Category
                       [] k = "name" -> f.Name
                       [] k = "parent" -> f.Parent]

\* the loop of WriteJsonObject over the events
RECURSIVE marshalEvents(_, _)
marshalEvents(events, done) ==
  IF events = <<>> THEN [err |-> FALSE, msgs |-> done]
  ELSE LET w == writeJsonEvent(Head(events))
       IN IF w.err THEN [err |-> TRUE, msgs |-> done]
          ELSE marshalEvents(Tail(events), Append(done, Marshal(w.j)))

\* the key of each field of jsonObjectFile
FileKey(f) ==
  CASE f = "TraceEvents" -> "traceEvents"
    [] f = "DisplayTimeUnit" -> "displayTimeUnit"
    [] f = "StackFrames" -> "stackFrames"
    [] f = "SystemTraceEvents" -> "systemTraceEvents"
    [] f = "PowerTraceAsString" -> "powerTraceAsString"
    [] f = "ControllerTraceDataKey" -> "controllerTraceDataKey"
    [] f = "Metadata" -> "otherData"

\* WriteJsonObject: the jsonObjectFile of the data, encoded.  traceEvents is
\* always written; a field with omitempty is written unless it is the empty
\* string or an empty map.
WriteJsonObject(data) ==
  LET msgs == marshalEvents(data.traceEvents, <<>>)
      jsonFile ==
        [TraceEvents |-> msgs.msgs,
         DisplayTimeUnit |-> data.displayTimeUnit,
         StackFrames |-> [id \in DOMAIN data.stackFrames |->
                            MarshalFrame(data.stackFrames[id])],
         SystemTraceEvents |-> data.systemTraceEvents,
         PowerTraceAsString |-> data.powerTraceAsString,
         ControllerTraceDataKey |-> data.controllerTraceDataKey,
         Metadata |-> data.metadata]
      written == {f \in DOMAIN jsonFile :
                    \/ f = "TraceEvents"
                    \/ f \in {"StackFrames", "Metadata"} /\ jsonFile[f] # EmptyMap
                    \/ f \in {"DisplayTimeUnit", "SystemTraceEvents",
                              "PowerTraceAsString", "ControllerTraceDataKey"}
                         /\ jsonFile[f] # ""}
  IN IF msgs.err THEN [err |-> TRUE, out |-> EmptyMap]
     ELSE [err |-> FALSE,
           out |-> [k \in {FileKey(f) : f \in written} |->
                      jsonFile[CHOOSE f \in written : FileKey(f) = k]]]

\* ----------------------------------------------------------------------
\* pkg/io: the streaming writer
\* ----------------------------------------------------------------------

\* NewStreamingWriter: both flags are false
NewStreamingWriter == [initialised |-> FALSE, finalised |-> FALSE]

\* The result of a method of the writer: the writer afterwards, the bytes the
\* sink took during the call, the number of Close calls made on the sink,
\* whether the method returned an error and whether a call of the sink failed.
Ret(w, out, closes, err, io) ==
  [sw |-> w, out |-> out, closes |-> closes, err |-> err, io |-> io]

\* initialise writes "[" and, when the sink took it, sets initialised
initialise(w, sinkFails) ==
  IF sinkFails THEN Ret(w, <<>>, 0, TRUE, TRUE)
  ELSE Ret([w EXCEPT !.initialised = TRUE], <<LBracket>>, 0, FALSE, FALSE)

\* SwWrite without the separator between neighbouring events
SwWriteNoComma(w, e, fault, n) ==
  LET first == IF ~w.initialised
               THEN initialise(w, fault = "first")
               ELSE Ret(w, <<>>, 0, fault = "first", fault = "first")
      m == marshalJsonEvent(e)
  IN IF first.err THEN first
     ELSE IF m.err THEN Ret(first.sw, first.out, 0, TRUE, FALSE)
     ELSE IF fault = "msg"
          THEN Ret(first.sw, first.out \o SubSeq(m.msg, 1, n), 0, TRUE, TRUE)
     ELSE Ret(first.sw, first.out \o m.msg, 0, FALSE, FALSE)

\* The sink is an io.WriteCloser: any of its calls may fail.  fault names
\* the call of the method that fails: "none", "first" (the write of "[" or
\* of ","), "msg" (the write of the event, of which the sink takes the first
\* n bytes), "end" (the write of "]"), "close" (the Close of the sink).
SwWrite(w, e, fault, n) ==
  LET first == IF ~w.initialised
               THEN initialise(w, fault = "first")
               ELSE IF fault = "first" THEN Ret(w, <<>>, 0, TRUE, TRUE)
                    ELSE Ret(w, <<Comma>>, 0, FALSE, FALSE)
      m == marshalJsonEvent(e)
  IN IF first.err THEN first
     ELSE IF m.err THEN Ret(first.sw, first.out, 0, TRUE, FALSE)
     ELSE IF fault = "msg"
          THEN Ret(first.sw, first.out \o SubSeq(m.msg, 1, n), 0, TRUE, TRUE)
     ELSE Ret(first.sw, first.out \o m.msg, 0, FALSE, FALSE)

\* SwClose without the opening bracket of a writer that was never written to
SwCloseNoOpen(w, fault) ==
  IF w.finalised THEN Ret(w, <<>>, 0, FALSE, FALSE)
  ELSE IF fault \in {"first", "end"} THEN Ret(w, <<>>, 0, TRUE, TRUE)
  ELSE Ret(w, <<RBracket>>, 1, fault = "close", fault = "close")

\* Close: nothing when finalised; otherwise "[" if it was never written, then
\* "]", then the Close of the sink.  No statement of the writer assigns
\* finalised, so the writer that Close leaves is the writer it found, but for
\* initialised.
SwClose(w, fault) ==
  LET first == IF ~w.initialised
               THEN initialise(w, fault = "first")
               ELSE Ret(w, <<>>, 0, FALSE, FALSE)
  IN IF w.finalised THEN Ret(w, <<>>, 0, FALSE, FALSE)
     ELSE IF first.err THEN first
     ELSE IF fault = "end" THEN Ret(first.sw, first.out, 0, TRUE, TRUE)
     ELSE IF fault = "close"
          THEN Ret(first.sw, first.out \o <<RBracket>>, 1, TRUE, TRUE)
     ELSE Ret(first.sw, first.out \o <<RBracket>>, 1, FALSE, FALSE)

\* ----------------------------------------------------------------------
\* State
\* ----------------------------------------------------------------------

VARIABLES
  sw,        \* the streamingWriter: its initialised and finalised flags
  sink,      \* the bytes the underlying io.WriteCloser has taken
  closes,    \* the number of Close calls the underlying sink has received
  log,       \* the calls made on the writer, in order, with their results
  cut,       \* the length of the prefix of the sink that was read back, or -1
  readBack,  \* the result of ParseJsonArray on that prefix
  reader,    \* the reader operation that ran last, "idle" before any
  arrayIn,   \* the bytes given to ParseJsonArray
  objIn,     \* the top-level JSON object given to ParseJsonObj
  evIn,      \* the raw event object given to parseJsonEvent
  parsed,    \* the return of ParseJsonArray or ParseJsonObj
  evOut,     \* the return of parseJsonEvent
  tefData,   \* the container given to WriteJsonObject
  written,   \* the return of WriteJsonObject on that container
  evTyped,   \* the typed event given to the encoder
  evEnc,     \* the return of the encoder: the JSON object of the event
  clock,     \* what the tracer's timestampFn returns when it is called
  received,  \* the events the tracer's event writer was given, in order
  tracerCalls, \* the calls made on the tracer and its durations, in order
  durations, \* the Duration values that BeginDuration has returned
  raceSw,    \* the streamingWriter that two goroutines write to
  raceSink,  \* the bytes its sink has taken
  pc,        \* where each goroutine is in its Write call
  saw,       \* the value of initialised that each goroutine read
  arg        \* the event each goroutine writes

writerVars == <<sw, sink, closes, log, cut, readBack>>

parseVars ==
  <<reader, arrayIn, objIn, evIn, parsed, evOut, tefData, written, evTyped, evEnc>>

tracerVars == <<clock, received, tracerCalls, durations>>

raceVars == <<raceSw, raceSink, pc, saw, arg>>

vars == <<writerVars, parseVars, tracerVars, raceVars>>

\* the events handed to the streaming writer
WriterEvents ==
  { [ZeroEvent EXCEPT !.variant = "BeginDuration", !.name = "a"],
    [ZeroEvent EXCEPT !.variant = "EndDuration", !.name = "a", !.ts = 1],
    [ZeroEvent EXCEPT !.variant = "FlowStart", !.name = "f"] }

\* the two goroutines that call Write on one writer
Goroutines == {1, 2}

\* the result of a parse that has not run
NoResult == [err |-> "none", data |-> NilData]

\* the return of WriteJsonObject when it has not run
NotWritten == [err |-> FALSE, out |-> EmptyMap]

\* the return of the encoder when it has not run
NotEncoded == [err |-> FALSE, obj |-> EmptyMap]

Init ==
  /\ sw = NewStreamingWriter
  /\ sink = <<>>
  /\ closes = 0
  /\ log = <<>>
  /\ cut = -1
  /\ readBack = NoResult
  /\ reader = "idle"
  /\ arrayIn = <<>>
  /\ objIn = EmptyMap
  /\ evIn = EmptyMap
  /\ parsed = NoResult
  /\ evOut = [err |-> "none", event |-> NilEvent]
  /\ tefData = NilData
  /\ written = NotWritten
  /\ evTyped = NilEvent
  /\ evEnc = NotEncoded
  /\ clock = 0
  /\ received = <<>>
  /\ tracerCalls = <<>>
  /\ durations = <<>>
  /\ raceSw = NewStreamingWriter
  /\ raceSink = <<>>
  /\ pc = [p \in Goroutines |-> "idle"]
  /\ saw = [p \in Goroutines |-> FALSE]
  /\ arg = [p \in Goroutines |-> NilEvent]

\* one entry of the log
Call(op, e, r) ==
  [op |-> op, e |-> e, err |-> r.err, out |-> r.out, closes |-> r.closes,
   io |-> r.io]

Applied(op, e, r) ==
  /\ sw' = r.sw
  /\ sink' = sink \o r.out
  /\ closes' = closes + r.closes
  /\ log' = Append(log, Call(op, e, r))
  /\ UNCHANGED <<cut, readBack, parseVars, tracerVars, raceVars>>

\* streamingWriter.Write(e)
Write ==
  /\ Len(log) < MaxCalls
  /\ cut = -1
  /\ \E e \in WriterEvents :
       \/ \E fault \in {"none", "first"} : Applied("Write", e, SwWrite(sw, e, fault, 0))
       \/ /\ ~marshalJsonEvent(e).err
          /\ \E n \in 0..(Len(marshalJsonEvent(e).msg) - 1) :
               Applied("Write", e, SwWrite(sw, e, "msg", n))

\* streamingWriter.Close()
Close ==
  /\ Len(log) < MaxCalls
  /\ cut = -1
  /\ \E fault \in {"none", "end", "close"} \cup
                   (IF sw.initialised THEN {} ELSE {"first"}) :
       Applied("Close", NilEvent, SwClose(sw, fault))

\* Reading the output back after the writing process has stopped at some
\* byte: ParseJsonArray on the first k bytes of the sink.
ReadBack ==
  /\ cut = -1
  /\ \E k \in 0..Len(sink) :
       /\ cut' = k
       /\ readBack' = ParseJsonArray(SubSeq(sink, 1, k))
  /\ UNCHANGED <<sw, sink, closes, log, parseVars, tracerVars, raceVars>>

WriterNext == Write \/ Close \/ ReadBack

SpecWriter == Init /\ [][WriterNext]_vars

\* ----------------------------------------------------------------------
\* The readers: ParseJsonArray, ParseJsonObj, parseJsonEvent, and
\* WriteJsonObject on what ParseJsonObj returned
\* ----------------------------------------------------------------------

\* the phase codes of the Phase constants and of the deprecated async cases
PhaseCodes ==
  {PhaseBeginDuration, PhaseEndDuration, PhaseComplete, PhaseInstant,
   PhaseInstantLegacy, PhaseCounter, PhaseAsyncBegin, PhaseAsyncEnd,
   PhaseAsyncInstant, PhaseFlowStart, PhaseFlowInstant, PhaseFlowFinish,
   PhaseObjectCreated, PhaseObjectSnapshot, PhaseObjectDeleted,
   PhaseMetadata, PhaseGlobalMemoryDump, PhaseProcessMemoryDump, PhaseMark,
   PhaseClockSync, PhaseContextEnter, PhaseContextExit, PhaseLinkIds,
   "S", "T", "p", "F"}

\* a raw event object with the three common members
RawEvent(ph, name, ts) == [k \in {"ph", "name", "ts"} |->
                             CASE k = "ph" -> ph [] k = "name" -> name
                               [] k = "ts" -> ts]

\* obj with the member key set to val
WithMember(obj, key, val) ==
  [k \in DOMAIN obj \cup {key} |-> IF k = key THEN val ELSE obj[k]]

\* the args objects of the raw events
RawArgs ==
  { [k \in {"name"} |-> StrVal("x")],
    [k \in {"name"} |-> NumVal(1)],
    [k \in {"labels"} |-> StrVal("x")],
    [k \in {"sort_index"} |-> NumVal(1)],
    [k \in {"sync_id"} |-> StrVal("x")],
    [k \in {"sync_id", "issue_ts"} |->
       IF k = "sync_id" THEN StrVal("x") ELSE NumVal(2)],
    [k \in {"sync_id", "issue_ts"} |->
       IF k = "sync_id" THEN StrVal("x") ELSE NullVal],
    [k \in {"linked_id"} |-> StrVal("x")],
    [k \in {"v"} |-> StrVal("24")],
    [k \in {"v"} |-> StrVal("x")],
    [k \in {"v"} |-> NumVal(24)],
    [k \in {"sort_index"} |-> StrVal("1")],
    [k \in {"labels"} |-> NullVal] }

\* the arrays of the stack and estack members of the raw events
RawStacks == {<<>>, <<"one">>, <<"one", "two">>, <<"two", "one", "one">>}

\* the raw event objects given to parseJsonEvent: every phase code and one
\* code outside them, every metadata name and one other name, with and
\* without args and scope, and objects without ph or ts
RawEvents ==
  LET names == {"a", MetadataKindProcessName, MetadataKindProcessLabels,
                MetadataKindProcessSortIndex, MetadataKindThreadName,
                MetadataKindThreadSortIndex}
      plain == {RawEvent(ph, name, 0) : ph \in PhaseCodes \cup {"Z"}, name \in names}
      withArgs == {WithMember(o, "args", a) : o \in plain, a \in RawArgs}
      scoped == {WithMember(RawEvent(ph, "a", 0), "s", sc) :
                   ph \in {PhaseInstant, PhaseInstantLegacy},
                   sc \in {"", InstantScopeThread, InstantScopeProcess,
                           InstantScopeGlobal}}
      identified == {WithMember(RawEvent(ph, "a", 0), "id", "id1") :
                       ph \in {"S", "T", "p", "F", PhaseAsyncBegin,
                               PhaseAsyncInstant, PhaseAsyncEnd}}
      partial == {[k \in {"name"} |-> "a"],
                  [k \in {"ph", "name"} |-> IF k = "ph" THEN PhaseBeginDuration ELSE "a"]}
      stacked == {WithMember(RawEvent(ph, "a", 0), k, st) :
                    ph \in {PhaseBeginDuration, PhaseEndDuration, PhaseComplete,
                            PhaseInstant, PhaseInstantLegacy, PhaseAsyncBegin},
                    k \in {"stack", "estack"}, st \in RawStacks}
                 \cup {WithMember(WithMember(RawEvent(PhaseComplete, "a", 0),
                                             "stack", <<"one", "two">>),
                                  "estack", <<"two">>)}
  IN plain \cup withArgs \cup scoped \cup identified \cup partial \cup stacked

\* the event objects that are elements of the array and object inputs
Elements ==
  { RawEvent(PhaseBeginDuration, "a", 0),
    RawEvent(PhaseEndDuration, "a", 1),
    RawEvent(PhaseFlowStart, "f", 0),
    RawEvent("Z", "a", 0),
    WithMember(RawEvent(PhaseMetadata, MetadataKindThreadName, 0), "args",
               [k \in {"name"} |-> StrVal("x")]),
    RawEvent(PhaseMetadata, MetadataKindThreadName, 0),
    WithMember(RawEvent(PhaseBeginDuration, "a", 0), "sf", "b"),
    WithMember(RawEvent(PhaseComplete, "a", 0), "esf", "x") }

\* the sequences over S of length at most n
RECURSIVE SeqsUpTo(_, _)
SeqsUpTo(S, n) ==
  IF n = 0 THEN {<<>>}
  ELSE LET shorter == SeqsUpTo(S, n - 1)
       IN shorter \cup {Append(q, x) : q \in {t \in shorter : Len(t) = n - 1}, x \in S}

\* the bytes of the objects with one comma between neighbours
RECURSIVE JoinObjects(_)
JoinObjects(objs) ==
  IF objs = <<>> THEN <<>>
  ELSE IF Len(objs) = 1 THEN ObjectBytes(objs[1])
  ELSE ObjectBytes(objs[1]) \o <<Comma>> \o JoinObjects(Tail(objs))

\* what follows the last element of an array input
ArrayTails ==
  { <<>>, <<Space>>, <<Comma>>, <<Comma, Space>>, <<RBracket>>,
    <<RBracket, Space>>, <<LBrace>>, <<Comma, LBrace>>,
    <<Comma, LBrace, Tok("ph", PhaseBeginDuration)>> }

\* ParseJsonArray(r) on an input that opens with "[" or without it
ParseArray ==
  /\ reader = "idle"
  /\ \E objs \in SeqsUpTo(Elements, MaxElems), tail \in ArrayTails,
        head \in {<<LBracket>>, <<Space, LBracket, Space>>, <<>>} :
       /\ arrayIn' = head \o JoinObjects(objs) \o tail
       /\ parsed' = ParseJsonArray(arrayIn')
  /\ reader' = "array"
  /\ UNCHANGED <<writerVars, tracerVars, raceVars, tefData, objIn, evIn, evOut, written, evTyped, evEnc>>

\* a frame of the stackFrames member: its name is its id
Frame(id, parent) ==
  [m \in {"category", "name", "parent"} |->
     CASE m = "category" -> "f.go" [] m = "name" -> id [] m = "parent" -> parent]

\* the stackFrames members of the object inputs: a frame without a parent
\* member, a chain b -> a, two frames that are each other's parent, a frame
\* whose parent is not in the table
FrameTables ==
  { [id \in {"1"} |-> [m \in {"category", "name"} |-> "x"]],
    [id \in {"a", "b"} |-> Frame(id, IF id = "b" THEN "a" ELSE "")],
    [id \in {"x", "y"} |-> Frame(id, IF id = "x" THEN "y" ELSE "x")],
    [id \in {"b", "x"} |-> Frame(id, "gone")] }

\* the optional members of the object inputs, each as a set of objects with
\* at most that one member
OptionalMembers ==
  << {EmptyMap} \cup {[k \in {"displayTimeUnit"} |-> u] :
                        u \in {"", DisplayTimeMs, DisplayTimeNs, "us"}},
     {EmptyMap} \cup {[k \in {"stackFrames"} |-> t] : t \in FrameTables},
     {EmptyMap, [k \in {"controllerTraceDataKey"} |-> "key"],
                [k \in {"systemTraceEvents"} |-> "sys"]},
     {EmptyMap, [k \in {"foo"} |-> "bar"],
                [k \in {"otherData"} |-> [m \in {"version"} |-> "1"]]} >>

\* the union of objects with disjoint keys
Merge(a, b) ==
  [k \in DOMAIN a \cup DOMAIN b |-> IF k \in DOMAIN a THEN a[k] ELSE b[k]]

\* ParseJsonObj(r) on a top-level object
ParseObj ==
  /\ reader = "idle"
  /\ \E events \in {EmptyMap} \cup
                    {[k \in {"traceEvents"} |-> objs] :
                       objs \in SeqsUpTo(Elements, MaxElems)},
        m1 \in OptionalMembers[1], m2 \in OptionalMembers[2],
        m3 \in OptionalMembers[3], m4 \in OptionalMembers[4] :
       /\ objIn' = Merge(events, Merge(m1, Merge(m2, Merge(m3, m4))))
       /\ parsed' = ParseJsonObj(objIn')
  /\ reader' = "obj"
  /\ UNCHANGED <<writerVars, tracerVars, raceVars, tefData, arrayIn, evIn, evOut, written, evTyped, evEnc>>

\* WriteJsonObject(w, data) on the container that ParseJsonObj returned
WriteObj ==
  /\ reader = "obj"
  /\ parsed.err = NoErr
  /\ tefData' = parsed.data
  /\ written' = WriteJsonObject(parsed.data)
  /\ reader' = "written"
  /\ UNCHANGED <<writerVars, tracerVars, raceVars, arrayIn, objIn, evIn, parsed, evOut, evTyped, evEnc>>

\* the zero TefData
ZeroTefData ==
  [NewTefData EXCEPT !.displayTimeUnit = "", !.controllerTraceDataKey = ""]

\* TefData.SetStackFrame: the frame is stored under the id, in place of any
\* frame stored under it before
SetStackFrame(td, id, frame) ==
  [td EXCEPT !.stackFrames =
     [k \in DOMAIN @ \cup {id} |-> IF k = id THEN frame ELSE @[k]]]

\* TefData.Write: the event is appended
TefWrite(td, e) == [td EXCEPT !.traceEvents = Append(@, e)]

\* the SetStackFrame calls of the containers that are built in memory
SetCalls ==
  {<<id, f>> : id \in {"a", "b"},
               f \in {StackFrame("f.go", "main", ""), StackFrame("", "run", "a"),
                      StackFrame("f.go", "main", "b")}}

\* the containers after a sequence of SetStackFrame calls
RECURSIVE WithFrames(_, _)
WithFrames(td, calls) ==
  IF calls = <<>> THEN td
  ELSE WithFrames(SetStackFrame(td, Head(calls)[1], Head(calls)[2]), Tail(calls))

\* the events of the containers that are built in memory: none, one the
\* encoder has a case for, one it has none for, one whose encoding the
\* decoder refuses
DataEvents ==
  LET ev(v) == [ZeroEvent EXCEPT !.variant = v, !.name = "a", !.ts = 1]
  IN {<<>>, <<ev("BeginDuration")>>, <<ev("FlowStart")>>,
      <<[ev("ClockSync") EXCEPT !.syncId = "x"]>>}

\* WriteJsonObject(w, data) on a container built with SetStackFrame and Write
WriteData ==
  /\ reader = "idle"
  /\ \E calls \in SeqsUpTo(SetCalls, MaxFrames), es \in DataEvents :
       LET framed == WithFrames(ZeroTefData, calls)
           data == IF es = <<>> THEN framed ELSE TefWrite(framed, es[1])
       IN /\ tefData' = data
          /\ written' = WriteJsonObject(data)
  /\ reader' = "datawritten"
  /\ UNCHANGED <<writerVars, tracerVars, raceVars, arrayIn, objIn, evIn, parsed, evOut, evTyped, evEnc>>

\* ParseJsonObj(r) on the object that WriteJsonObject wrote
ParseWritten ==
  /\ reader \in {"written", "datawritten"}
  /\ ~written.err
  /\ objIn' = written.out
  /\ parsed' = ParseJsonObj(written.out)
  /\ reader' = "reparsed"
  /\ UNCHANGED <<writerVars, tracerVars, raceVars, tefData, arrayIn, evIn, evOut, written, evTyped, evEnc>>

\* parseJsonEvent(rawEvent)
ParseEvent ==
  /\ reader = "idle"
  /\ \E raw \in RawEvents :
       /\ evIn' = raw
       /\ evOut' = parseJsonEvent(raw)
  /\ reader' = "event"
  /\ UNCHANGED <<writerVars, tracerVars, raceVars, tefData, arrayIn, objIn, parsed, written, evTyped, evEnc>>

\* the event types
Variants ==
  {"BeginDuration", "EndDuration", "Complete", "Instant", "Counter",
   "AsyncBegin", "AsyncEnd", "AsyncInstant", "FlowStart", "FlowInstant",
   "FlowFinish", "ObjectCreated", "ObjectSnapshot", "ObjectDeleted",
   "MetadataProcessName", "MetadataThreadName", "MetadataProcessLabels",
   "MetadataProcessSortIndex", "MetadataThreadSortIndex", "MetadataMisc",
   "GlobalMemoryDump", "ProcessMemoryDump", "Mark", "ClockSync",
   "ContextEnter", "ContextExit", "LinkIds"}

\* the texts over the characters x and "," of length at most n
RECURSIVE Texts(_)
Texts(n) ==
  IF n = 0 THEN {<<>>}
  ELSE Texts(n - 1) \cup {Append(t, c) : t \in {u \in Texts(n - 1) : Len(u) = n - 1},
                                        c \in {"x", ","}}

\* the stack traces of the typed events: one without frames, frames with
\* only a name, and frames that also have a category and a parent
TypedStacks ==
  { StackOf(<<>>), StackOf(<<"one">>), StackOf(<<"one", "two">>),
    [nil |-> FALSE,
     trace |-> <<StackFrame("c", "two", "p"), StackFrame("", "one", "")>>] }

\* the typed events given to the encoder: an event of every type as its
\* constructor would leave it, with the fields of its type set or not, and
\* duration events with every category list within the bounds
TypedEvents ==
  LET base(v) == [ZeroEvent EXCEPT !.variant = v, !.name = "a", !.ts = 1,
                                   !.str = IF v \in {"MetadataProcessName",
                                                     "MetadataThreadName",
                                                     "MetadataProcessLabels"}
                                           THEN "x" ELSE "",
                                   !.sortIndex = IF v \in {"MetadataProcessSortIndex",
                                                           "MetadataThreadSortIndex"}
                                                 THEN 1 ELSE 0,
                                   !.syncId = IF v = "ClockSync" THEN "x" ELSE "",
                                   !.linkedId = IF v = "LinkIds" THEN "x" ELSE "",
                                   !.scope = IF v = "Instant" THEN InstantScopeThread
                                             ELSE ""]
      withId == {[base(v) EXCEPT !.id = i, !.scope = sc] :
                   v \in {"AsyncBegin", "AsyncInstant", "AsyncEnd"},
                   i \in {"", "id1"}, sc \in {"", "sc"}}
                \cup {[base(v) EXCEPT !.id = "id1"] :
                        v \in {"ObjectCreated", "ObjectSnapshot", "ObjectDeleted",
                               "ContextEnter", "ContextExit", "LinkIds"}}
      withDur == {[base("Complete") EXCEPT !.duration = d] : d \in {0, 5}}
      withCat == {[base(v) EXCEPT !.categories = cats] :
                    v \in {"BeginDuration", "Instant"},
                    cats \in SeqsUpTo(Texts(MaxCatLen), MaxCats)}
      withArgs == {[base(v) EXCEPT !.args = [k \in {"v"} |-> NumVal(2)]] :
                     v \in {w \in Variants : HasArgs(w)} \cup {"Counter"}}
      withTs == {[base("ClockSync") EXCEPT !.issueTs = SomeInt(2)]}
      withStack == {[base(v) EXCEPT !.stackTrace = st] :
                      v \in {"BeginDuration", "EndDuration", "Complete", "Instant"},
                      st \in TypedStacks}
                   \cup {[base("Complete") EXCEPT !.endStackTrace = st] :
                           st \in TypedStacks}
                   \cup {[base("Complete") EXCEPT
                            !.stackTrace = StackOf(<<"one">>),
                            !.endStackTrace = StackOf(<<"two", "one">>)]}
  IN {base(v) : v \in Variants} \cup withId \cup withDur \cup withCat
       \cup withArgs \cup withTs \cup withStack

\* the encoder's JSON object for an event: writeJsonEvent, then json.Marshal
Encode(e) ==
  LET w == writeJsonEvent(e)
  IN IF w.err THEN [err |-> TRUE, obj |-> EmptyMap]
     ELSE [err |-> FALSE, obj |-> Marshal(w.j)]

\* marshalJsonEvent(event) on a typed event
EncodeEvent ==
  /\ reader = "idle"
  /\ \E e \in TypedEvents :
       /\ evTyped' = e
       /\ evEnc' = Encode(e)
  /\ reader' = "encoded"
  /\ UNCHANGED <<writerVars, tracerVars, raceVars, tefData, arrayIn, objIn, evIn, parsed, evOut, written>>

\* parseJsonEvent on the object the encoder produced
DecodeEncoded ==
  /\ reader = "encoded"
  /\ ~evEnc.err
  /\ evIn' = evEnc.obj
  /\ evOut' = parseJsonEvent(evEnc.obj)
  /\ reader' = "roundtrip"
  /\ UNCHANGED <<writerVars, tracerVars, raceVars, tefData, arrayIn, objIn, parsed, written, evTyped, evEnc>>

\* marshalJsonEvent(event) on the event parseJsonEvent returned
ReEncode ==
  /\ reader = "event"
  /\ evOut.err = NoErr
  /\ evTyped' = evOut.event
  /\ evEnc' = Encode(evOut.event)
  /\ reader' = "reencoded"
  /\ UNCHANGED <<writerVars, tracerVars, raceVars, tefData, arrayIn, objIn, evIn, parsed, evOut, written>>

ParseNext ==
  \/ ParseArray \/ ParseObj \/ WriteObj \/ ParseEvent
  \/ WriteData \/ ParseWritten
  \/ EncodeEvent \/ DecodeEncoded \/ ReEncode

SpecParse == Init /\ [][ParseNext]_vars

\* ----------------------------------------------------------------------
\* pkg/util/trace: the Tracer, over an event writer that records what it
\* is given
\* ----------------------------------------------------------------------

\* getPid: the id of the process, the same at every call
getPid == 7

\* the options of a call: none, WithCategories, WithArgs
EventOptions == {"none", "categories", "args"}

\* an EventOption applied to an event: WithArgs panics on an event that is
\* no ArgSetter
EventOption(opt, e) ==
  CASE opt = "none" -> [panic |-> FALSE, e |-> e]
    [] opt = "categories" ->
         [panic |-> FALSE, e |-> [e EXCEPT !.categories = <<<<"x">>>>]]
    [] opt = "args" ->
         IF HasArgs(e.variant)
         THEN [panic |-> FALSE, e |-> [e EXCEPT !.args = [k \in {"v"} |-> NumVal(2)]]]
         ELSE [panic |-> TRUE, e |-> e]

\* Tracer.writeEvent: the option is applied, then the event is given to the
\* stream; a panic of the option leaves the stream as it was
writeEvent(stream, e, opt) ==
  LET o == EventOption(opt, e)
  IN IF o.panic THEN [panic |-> TRUE, stream |-> stream]
     ELSE [panic |-> FALSE, stream |-> Append(stream, o.e)]

\* the event of Tracer.BeginDuration
BeginDurationEvent(name, now) ==
  [ZeroEvent EXCEPT !.variant = "BeginDuration", !.name = name, !.ts = now,
                    !.processId = SomeInt(getPid)]

\* an EndDuration event of Duration.End that has no process id
EndDurationEventNoPid(d, now) ==
  [ZeroEvent EXCEPT !.variant = "EndDuration", !.name = d.name, !.ts = now]

\* the event of Duration.End
EndDurationEvent(d, now) ==
  [ZeroEvent EXCEPT !.variant = "EndDuration", !.name = d.name, !.ts = now,
                    !.processId = SomeInt(d.pid)]

\* the event of Tracer.ScopedInstant
ScopedInstantEvent(name, scope, now) ==
  [ZeroEvent EXCEPT !.variant = "Instant", !.name = name, !.ts = now,
                    !.processId = SomeInt(getPid), !.scope = scope]

\* the names given to the tracer
TracerNames == {"a", "b"}

\* no call has panicked and there is room for another
CanCall ==
  /\ Len(tracerCalls) < MaxTracerCalls
  /\ \A i \in 1..Len(tracerCalls) : ~tracerCalls[i].panic

\* one entry of tracerCalls: the method, its name argument or the Duration it was
\* called on, the time when it ran and whether it panicked
TracerCall(op, name, d, w) ==
  [op |-> op, name |-> name, d |-> d, time |-> clock, panic |-> w.panic]

\* Tracer.BeginDuration(name, option)
BeginDuration ==
  /\ CanCall
  /\ \E name \in TracerNames, opt \in EventOptions :
       LET w == writeEvent(received, BeginDurationEvent(name, clock), opt)
       IN /\ received' = w.stream
          /\ durations' = IF w.panic THEN durations
                          ELSE Append(durations, [name |-> name, pid |-> getPid])
          /\ tracerCalls' = Append(tracerCalls, TracerCall("BeginDuration", name, 0, w))
  /\ UNCHANGED <<clock, writerVars, parseVars, raceVars>>

\* Duration.End(option) on a Duration that BeginDuration returned
End ==
  /\ CanCall
  /\ \E d \in 1..Len(durations), opt \in EventOptions :
       LET w == writeEvent(received, EndDurationEvent(durations[d], clock), opt)
       IN /\ received' = w.stream
          /\ tracerCalls' = Append(tracerCalls, TracerCall("End", durations[d].name, d, w))
  /\ UNCHANGED <<clock, durations, writerVars, parseVars, raceVars>>

\* Tracer.Instant(name, option)
Instant ==
  /\ CanCall
  /\ \E name \in TracerNames, opt \in EventOptions :
       LET e == ScopedInstantEvent(name, InstantScopeThread, clock)
           w == writeEvent(received, e, opt)
       IN /\ received' = w.stream
          /\ tracerCalls' = Append(tracerCalls, TracerCall("Instant", name, 0, w))
  /\ UNCHANGED <<clock, durations, writerVars, parseVars, raceVars>>

\* time passes between two calls
Tick ==
  /\ clock < MaxTime
  /\ clock' = clock + 1
  /\ UNCHANGED <<received, tracerCalls, durations, writerVars, parseVars, raceVars>>

TracerNext == BeginDuration \/ End \/ Instant \/ Tick

SpecTracer == Init /\ [][TracerNext]_vars

\* ----------------------------------------------------------------------
\* pkg/io: two goroutines in streamingWriter.Write on one writer, without a
\* lock.  Write is not atomic: it reads initialised, writes "[" and then
\* sets initialised, or writes ",", and then writes the event; each
\* access of the flag and each write of the sink is a step.
\* ----------------------------------------------------------------------

\* the events the goroutines write: each has an encoding
RaceEvents ==
  { [ZeroEvent EXCEPT !.variant = "BeginDuration", !.name = "a"],
    [ZeroEvent EXCEPT !.variant = "EndDuration", !.name = "a", !.ts = 1] }

\* a goroutine has set initialised
FlagSetInRace == \E q \in Goroutines : ~saw[q] /\ pc[q] \in {"ready", "done"}

\* The values a read of initialised may return.  The read races with the
\* other goroutine's assignment, which nothing orders before it: it returns
\* the value the flag has now or the value it had before that assignment.
FlagReads == {raceSw.initialised} \cup (IF FlagSetInRace THEN {FALSE} ELSE {})

\* a separator chosen by the value of the flag at the time of the write
SeparatorFresh(p) ==
  IF raceSw.initialised THEN <<Comma>> ELSE initialise(raceSw, FALSE).out

\* the byte Write puts before the event: by the value of initialised that
\* the goroutine read at the start of its call
Separator(p) ==
  IF saw[p] THEN <<Comma>> ELSE initialise(raceSw, FALSE).out

\* a Write that returned before the goroutines were started
Prior ==
  /\ \A p \in Goroutines : pc[p] = "idle"
  /\ raceSink = <<>>
  /\ \E e \in RaceEvents :
       LET r == SwWrite(raceSw, e, "none", 0)
       IN raceSw' = r.sw /\ raceSink' = r.out
  /\ UNCHANGED <<pc, saw, arg, writerVars, parseVars, tracerVars>>

\* Write(e) begins: if !sw.initialised
ReadFlag(p) ==
  /\ pc[p] = "idle"
  /\ \E e \in RaceEvents, b \in FlagReads :
       /\ arg' = [arg EXCEPT ![p] = e]
       /\ saw' = [saw EXCEPT ![p] = b]
  /\ pc' = [pc EXCEPT ![p] = "read"]
  /\ UNCHANGED <<raceSw, raceSink, writerVars, parseVars, tracerVars>>

\* initialise: io.WriteString(sw.w, "[")
WriteOpen(p) ==
  /\ pc[p] = "read"
  /\ ~saw[p]
  /\ raceSink' = raceSink \o Separator(p)
  /\ pc' = [pc EXCEPT ![p] = "opened"]
  /\ UNCHANGED <<raceSw, saw, arg, writerVars, parseVars, tracerVars>>

\* initialise: sw.initialised = true
SetFlag(p) ==
  /\ pc[p] = "opened"
  /\ raceSw' = initialise(raceSw, FALSE).sw
  /\ pc' = [pc EXCEPT ![p] = "ready"]
  /\ UNCHANGED <<raceSink, saw, arg, writerVars, parseVars, tracerVars>>

\* io.WriteString(sw.w, ",")
WriteComma(p) ==
  /\ pc[p] = "read"
  /\ saw[p]
  /\ raceSink' = raceSink \o Separator(p)
  /\ pc' = [pc EXCEPT ![p] = "ready"]
  /\ UNCHANGED <<raceSw, saw, arg, writerVars, parseVars, tracerVars>>

\* marshalJsonEvent(e) and sw.w.Write(msg)
WriteMsg(p) ==
  /\ pc[p] = "ready"
  /\ raceSink' = raceSink \o marshalJsonEvent(arg[p]).msg
  /\ pc' = [pc EXCEPT ![p] = "done"]
  /\ UNCHANGED <<raceSw, saw, arg, writerVars, parseVars, tracerVars>>

RaceNext ==
  \/ Prior
  \/ \E p \in Goroutines :
       ReadFlag(p) \/ WriteOpen(p) \/ SetFlag(p) \/ WriteComma(p) \/ WriteMsg(p)

SpecRace == Init /\ [][RaceNext]_vars

\* ----------------------------------------------------------------------
\* JSON syntax, for stating what the emitted bytes are
\* ----------------------------------------------------------------------

\* buf[p..] is one event object, closed at position r: "{", members, "}"
ObjectEnd(buf, p) ==
  IF p <= Len(buf) /\ buf[p].k = "{" /\ NextStructural(buf, p + 1) <= Len(buf)
       /\ buf[NextStructural(buf, p + 1)].k = "}"
  THEN NextStructural(buf, p + 1)
  ELSE 0

\* buf[p..] is a non-empty list of objects with one comma between neighbours,
\* followed by "]" as the last byte
RECURSIVE ElementsThenEnd(_, _)
ElementsThenEnd(buf, p) ==
  LET r == ObjectEnd(buf, p)
  IN /\ r # 0
     /\ r < Len(buf)
     /\ \/ buf[r + 1].k = "]" /\ r + 1 = Len(buf)
        \/ buf[r + 1].k = "," /\ ElementsThenEnd(buf, r + 2)

\* buf is a syntactically valid JSON array of objects (no white space)
IsJsonArray(buf) ==
  /\ Len(buf) >= 2
  /\ buf[1].k = "["
  /\ \/ Len(buf) = 2 /\ buf[2].k = "]"
     \/ ElementsThenEnd(buf, 2)

\* the elements of events joined by commas
RECURSIVE JoinMsgs(_)
JoinMsgs(events) ==
  IF events = <<>> THEN <<>>
  ELSE IF Len(events) = 1 THEN marshalJsonEvent(events[1]).msg
  ELSE marshalJsonEvent(events[1]).msg \o <<Comma>> \o JoinMsgs(Tail(events))

\* ----------------------------------------------------------------------
\* The history of a writer
\* ----------------------------------------------------------------------

Writes == {i \in 1..Len(log) : log[i].op = "Write"}

Closes == {i \in 1..Len(log) : log[i].op = "Close"}

\* no call of the sink has failed
SinkHealthy == \A i \in 1..Len(log) : ~log[i].io

\* the number of bytes in the sink when call i returned
RECURSIVE EndOffset(_)
EndOffset(i) == IF i = 0 THEN 0 ELSE EndOffset(i - 1) + Len(log[i].out)

\* the events of the Write calls that returned nil and whose bytes lie within
\* the first k bytes of the sink, in call order
RECURSIVE WrittenBefore(_, _)
WrittenBefore(i, k) ==
  IF i = 0 THEN <<>>
  ELSE IF log[i].op = "Write" /\ ~log[i].err /\ EndOffset(i) <= k
       THEN Append(WrittenBefore(i - 1, k), log[i].e)
       ELSE WrittenBefore(i - 1, k)

\* ----------------------------------------------------------------------
\* Properties of the streaming writer
\* ----------------------------------------------------------------------

\* C1: while a streaming writer is open (the opening bracket is written, Close
\* was not called), after any sequence of Write calls, whatever each returned,
\* the bytes in the sink followed by "]" are a valid JSON array.  Stated for
\* sinks that take every byte handed to them.
C1_PrefixIsAlmostArray ==
  (cut = -1 /\ SinkHealthy /\ sw.initialised /\ Closes = {})
    => IsJsonArray(sink \o <<RBracket>>)

\* C2: a second Close, after a first Close that returned nil, emits no byte
\* and does not close the sink again.
C2_SecondCloseIsNoOp ==
  \A i \in Closes : \A i2 \in Closes :
    (i < i2 /\ ~log[i].err) => (log[i2].out = <<>> /\ log[i2].closes = 0)

\* the log is n Write calls that returned nil followed by one Close that
\* returned nil
WritesThenClose ==
  /\ Len(log) >= 1
  /\ log[Len(log)].op = "Close" /\ ~log[Len(log)].err
  /\ \A i \in 1..(Len(log) - 1) : log[i].op = "Write" /\ ~log[i].err

\* C3: n successful Write calls on a fresh writer followed by one Close leave
\* in the sink "[", the n encoded events in call order with one "," between
\* neighbours, and "]": a valid JSON array with each event once, in order.
C3_WritesThenCloseIsArray ==
  WritesThenClose =>
    /\ sink = <<LBracket>> \o JoinMsgs(WrittenBefore(Len(log), Len(sink)))
                \o <<RBracket>>
    /\ Len(WrittenBefore(Len(log), Len(sink))) = Len(log) - 1
    /\ IsJsonArray(sink)

C3_Witness ==
  /\ WritesThenClose
  /\ Len(log) = 3
  /\ log[1].e # log[2].e

\* C4: a Close on a writer on which Write was never called, returning nil,
\* leaves "[]" in the sink and has closed the sink.
C4_CloseWithoutWrite ==
  (Len(log) = 1 /\ log[1].op = "Close" /\ ~log[1].err)
    => (sink = <<LBracket, RBracket>> /\ closes = 1)

C4_Witness ==
  /\ Len(log) = 1 /\ log[1].op = "Close" /\ ~log[1].err
  /\ sink = <<LBracket, RBracket>>

\* C6: when the output of a streaming writer is cut at any byte after the
\* opening bracket, ParseJsonArray on what is left returns, without error,
\* the events whose encoding was written completely before the cut, in
\* order.  Stated for writers whose calls all returned nil.
C6_CutOutputParses ==
  (cut >= 1 /\ \A i \in 1..Len(log) : ~log[i].err)
    => /\ readBack.err = NoErr
       /\ readBack.data # NilData
       /\ readBack.data.traceEvents = WrittenBefore(Len(log), cut)

\* the array and object inputs whose elements all decode
WellFormed == {o \in Elements : parseJsonEvent(o).err = NoErr}

\* the events that the objects decode to, in order
Decoded(objs) == [i \in 1..Len(objs) |-> parseJsonEvent(objs[i]).event]

\* an array input without its closing bracket: "[", the objects with commas
\* between them, then nothing or (after an object) one dangling comma; white
\* space may follow, as in a file that ends with a newline
Unclosed(objs) ==
  { head \o JoinObjects(objs) \o tail :
      head \in {<<LBracket>>, <<Space, LBracket, Space>>},
      tail \in {<<>>, <<Space>>} \cup
               (IF objs # <<>> THEN {<<Comma>>, <<Comma, Space>>} ELSE {}) }

\* C5: ParseJsonArray on "[" followed by n event objects that each decode,
\* separated by commas, with the closing bracket missing and with or without
\* a dangling comma after the last object, returns no error and the n events
\* in input order.
C5_UnclosedArrayParses ==
  reader = "array" =>
    \A objs \in SeqsUpTo(WellFormed, MaxElems) :
      arrayIn \in Unclosed(objs) =>
        /\ parsed.err = NoErr
        /\ parsed.data.traceEvents = Decoded(objs)

\* two objects, a dangling comma and a newline: both events are returned
C5_Witness ==
  /\ reader = "array"
  /\ arrayIn = <<LBracket>>
                 \o JoinObjects(<<RawEvent(PhaseBeginDuration, "a", 0),
                                  RawEvent(PhaseEndDuration, "a", 1)>>)
                 \o <<Comma, Space>>
  /\ parsed.err = NoErr
  /\ Len(parsed.data.traceEvents) = 2
  /\ parsed.data.traceEvents[2].variant = "EndDuration"

\* the elements of the array input, when it is "[" (or no "[") followed by
\* whole objects and one of the tails
ArrayElements ==
  {objs \in SeqsUpTo(Elements, MaxElems) :
     \E tail \in ArrayTails,
        head \in {<<LBracket>>, <<Space, LBracket, Space>>, <<>>} :
       arrayIn = head \o JoinObjects(objs) \o tail}

\* C7: when an element of the input does not decode, ParseJsonArray and
\* ParseJsonObj return an error and no container, however many elements
\* before it decoded.
C7_BadElementAbortsDecode ==
  /\ reader = "array" =>
       \A objs \in ArrayElements :
         (\E i \in 1..Len(objs) : parseJsonEvent(objs[i]).err # NoErr)
           => parsed.err # NoErr /\ parsed.data = NilData
  /\ reader \in {"obj", "written"} =>
       LET objs == field(objIn, "traceEvents", <<>>)
       IN (\E i \in 1..Len(objs) : parseJsonEvent(objs[i]).err # NoErr)
            => parsed.err # NoErr /\ parsed.data = NilData

\* a closed array whose first element decodes and whose second has an
\* unknown phase
C7_Witness ==
  /\ reader = "array"
  /\ arrayIn = <<LBracket>>
                 \o JoinObjects(<<RawEvent(PhaseBeginDuration, "a", 0),
                                  RawEvent("Z", "a", 0)>>)
                 \o <<RBracket>>
  /\ parsed.err = ErrUnknownPhase
  /\ parsed.data = NilData

\* C8: an object input whose only member is an empty traceEvents array goes
\* through ParseJsonObj and WriteJsonObject to an object whose only member is
\* an empty traceEvents array.
C8_EmptyRoundTripHasOnlyTraceEvents ==
  (reader = "written" /\ DOMAIN objIn = {"traceEvents"}
     /\ objIn["traceEvents"] = <<>>)
    => /\ ~written.err
       /\ DOMAIN written.out = {"traceEvents"}
       /\ written.out["traceEvents"] = <<>>

\* the top-level member names of the object form
WireKeys ==
  {"traceEvents", "displayTimeUnit", "stackFrames", "systemTraceEvents",
   "powerTraceAsString", "controllerTraceDataKey"}

\* C9: a top-level member of the input whose key is not a wire name is in the
\* metadata of the container ParseJsonObj returns, and WriteJsonObject emits
\* it again with the same value (at the top level or under otherData).
C9_UnknownKeysKept ==
  \A k \in DOMAIN objIn \ WireKeys :
    /\ (reader \in {"obj", "written"} /\ parsed.err = NoErr)
         => has(parsed.data.metadata, k) /\ parsed.data.metadata[k] = objIn[k]
    /\ (reader = "written" /\ ~written.err)
         => \/ has(written.out, k) /\ written.out[k] = objIn[k]
            \/ /\ has(written.out, "otherData")
               /\ has(written.out["otherData"], k)
               /\ written.out["otherData"][k] = objIn[k]

\* an event object of the phase with the args its decoding requires
Example(ph) ==
  CASE ph = PhaseClockSync ->
         WithMember(RawEvent(ph, "a", 0), "args", [k \in {"sync_id"} |-> StrVal("x")])
    [] ph = PhaseLinkIds ->
         WithMember(RawEvent(ph, "a", 0), "args", [k \in {"linked_id"} |-> StrVal("x")])
    [] OTHER -> RawEvent(ph, "a", 0)

\* the variant of each phase code: the type whose Phase() is the code, the
\* type the constant is named after for "i", the async types for the
\* deprecated codes, the catch-all metadata type for a name that is no kind
EnumVariant(ph) ==
  CASE ph = PhaseInstantLegacy -> "Instant"
    [] ph = "S" -> "AsyncBegin"
    [] ph \in {"T", "p"} -> "AsyncInstant"
    [] ph = "F" -> "AsyncEnd"
    [] ph = PhaseMetadata -> "MetadataMisc"
    [] OTHER -> CHOOSE v \in {"BeginDuration", "EndDuration", "Complete",
                              "Instant", "Counter", "AsyncBegin", "AsyncEnd",
                              "AsyncInstant", "FlowStart", "FlowInstant",
                              "FlowFinish", "ObjectCreated", "ObjectSnapshot",
                              "ObjectDeleted", "GlobalMemoryDump",
                              "ProcessMemoryDump", "Mark", "ClockSync",
                              "ContextEnter", "ContextExit", "LinkIds"} :
                   Phase(v) = ph

\* C10: parseJsonEvent decodes an event object of every phase code without
\* error into the variant of that code.
C10_EveryPhaseDecodes ==
  reader = "event" =>
    \A ph \in PhaseCodes :
      evIn = Example(ph) =>
        evOut.err = NoErr /\ evOut.event.variant = EnumVariant(ph)

\* Following parent links in a frame table from id, at most fuel frames: the
\* ids from the root to id, or no chain when an id is not in the table or
\* the links do not end within fuel frames.
RECURSIVE ChainTo(_, _, _)
ChainTo(frames, id, fuel) ==
  IF fuel = 0 \/ ~has(frames, id) THEN [ok |-> FALSE, trace |-> <<>>]
  ELSE IF field(frames[id], "parent", "") = ""
       THEN [ok |-> TRUE, trace |-> <<field(frames[id], "name", "")>>]
  ELSE LET up == ChainTo(frames, frames[id]["parent"], fuel - 1)
       IN [ok |-> up.ok,
           trace |-> IF up.ok THEN Append(up.trace, field(frames[id], "name", ""))
                     ELSE <<>>]

\* the chain of a reference in the frame table of the object input
InputChain(id) ==
  LET frames == field(objIn, "stackFrames", EmptyMap)
  IN ChainTo(frames, id, Cardinality(DOMAIN frames))

\* the events of the object input
InputEvents == field(objIn, "traceEvents", <<>>)

\* C11: an event of an object input whose sf (or esf) names a frame of the
\* frame table decodes with the stack trace (end stack trace) that follows
\* the parent links, root first and the named frame last.
C11_FrameReferenceResolved ==
  (reader = "obj" /\ parsed.err = NoErr) =>
    \A i \in 1..Len(InputEvents) :
      /\ (has(InputEvents[i], "sf") /\ InputChain(InputEvents[i]["sf"]).ok)
           => parsed.data.traceEvents[i].stackTrace
                = StackOf(InputChain(InputEvents[i]["sf"]).trace)
      /\ (has(InputEvents[i], "esf") /\ InputChain(InputEvents[i]["esf"]).ok)
           => parsed.data.traceEvents[i].endStackTrace
                = StackOf(InputChain(InputEvents[i]["esf"]).trace)

\* C12: a reference whose parent chain reaches an id that is not in the
\* table, or comes back to a frame already visited, ends the decode in an
\* error.
C12_BadFrameReferenceFails ==
  reader = "obj" =>
    \A i \in 1..Len(InputEvents) :
      (\E k \in {"sf", "esf"} :
         has(InputEvents[i], k) /\ ~InputChain(InputEvents[i][k]).ok)
        => parsed.err # NoErr

\* no category of the encoded event contains a comma
NoCommaInCategories ==
  \A i \in 1..Len(evTyped.categories) :
    \A n \in 1..Len(evTyped.categories[i]) : evTyped.categories[i][n] # ","

\* C13 as stated: for every category list in which no category contains a
\* comma, the event decoded from the encoded event has the same list.
C13_CategoriesRoundTripAll ==
  (reader = "roundtrip" /\ evOut.err = NoErr /\ NoCommaInCategories)
    => evOut.event.categories = evTyped.categories

\* C13 amended: for every category list in which no category contains a
\* comma, other than the list whose only category is the empty string,
\* the event decoded from the encoded event has the same list.
C13_CategoriesRoundTrip ==
  (reader = "roundtrip" /\ evOut.err = NoErr /\ NoCommaInCategories
     /\ evTyped.categories # << <<>> >>)
    => evOut.event.categories = evTyped.categories

\* two categories went through cat "x,x" and came back as two
C13_Witness ==
  /\ reader = "roundtrip"
  /\ evTyped.categories = << <<"x">>, <<"x">> >>
  /\ evIn["cat"] = <<"x", ",", "x">>
  /\ evOut.event.categories = << <<"x">>, <<"x">> >>

\* C14: an Instant event object without an s member, or with an empty one,
\* decodes with scope thread.
C14_InstantDefaultsToThread ==
  (reader = "event" /\ field(evIn, "ph", "") = PhaseInstant
     /\ field(evIn, "s", "") = "")
    => /\ evOut.err = NoErr
       /\ evOut.event.variant = "Instant"
       /\ evOut.event.scope = InstantScopeThread

\* the event types that carry an id, a scope or a duration
IdentifiedVariants ==
  {"AsyncBegin", "AsyncInstant", "AsyncEnd", "ObjectCreated", "ObjectSnapshot",
   "ObjectDeleted", "ContextEnter", "ContextExit", "LinkIds", "Complete"}

\* C15: decoding the encoder's output for an event that carries an id, a
\* scope or a duration yields an event of the same type with the same id,
\* scope and duration.
C15_IdScopeDurationRoundTrip ==
  (reader = "roundtrip" /\ evTyped.variant \in IdentifiedVariants)
    => /\ evOut.err = NoErr
       /\ evOut.event.variant = evTyped.variant
       /\ evOut.event.id = evTyped.id
       /\ evOut.event.scope = evTyped.scope
       /\ evOut.event.duration = evTyped.duration

\* C16: the encoder returns no error for an event of any type, and the
\* object it produces has the phase code of the type as its ph.
C16_EncoderTotal ==
  reader = "encoded" =>
    ~evEnc.err /\ evEnc.obj["ph"] = Phase(evTyped.variant)

\* the args key of each well-known metadata name, the type of its value and
\* the event type it decodes to
MetadataKinds ==
  { [name |-> MetadataKindProcessName, key |-> "name", t |-> "str",
     variant |-> "MetadataProcessName"],
    [name |-> MetadataKindProcessLabels, key |-> "labels", t |-> "str",
     variant |-> "MetadataProcessLabels"],
    [name |-> MetadataKindProcessSortIndex, key |-> "sort_index", t |-> "num",
     variant |-> "MetadataProcessSortIndex"],
    [name |-> MetadataKindThreadName, key |-> "name", t |-> "str",
     variant |-> "MetadataThreadName"],
    [name |-> MetadataKindThreadSortIndex, key |-> "sort_index", t |-> "num",
     variant |-> "MetadataThreadSortIndex"] }

\* the input of parseJsonEvent is a metadata event
IsMetadataInput == field(evIn, "ph", "") = PhaseMetadata

InputArgs == field(evIn, "args", EmptyMap)

\* the value a decoded well-known metadata event carries, as a JSON value
Carried(e, kind) == IF kind.t = "str" THEN StrVal(e.str) ELSE NumVal(e.sortIndex)

\* C17: a metadata event with a well-known name and args holding the
\* required key decodes to the matching type carrying that value, and
\* encoding the decoded event yields the wire object again: phase M, the
\* same name, and args holding exactly that key and value.
C17_MetadataRoundTrip ==
  (reader \in {"event", "reencoded"} /\ IsMetadataInput) =>
    \A kind \in MetadataKinds :
      (evIn["name"] = kind.name /\ DOMAIN InputArgs = {kind.key}
         /\ InputArgs[kind.key].t = kind.t)
        => /\ evOut.err = NoErr
           /\ evOut.event.variant = kind.variant
           /\ Carried(evOut.event, kind) = InputArgs[kind.key]
           /\ reader = "reencoded"
                => /\ ~evEnc.err
                   /\ evEnc.obj["ph"] = PhaseMetadata
                   /\ evEnc.obj["name"] = kind.name
                   /\ evEnc.obj["args"] = InputArgs

\* a process_sort_index event decoded and encoded again
C17_Witness ==
  /\ reader = "reencoded"
  /\ evIn["name"] = MetadataKindProcessSortIndex
  /\ InputArgs = [k \in {"sort_index"} |-> NumVal(1)]
  /\ evOut.event.variant = "MetadataProcessSortIndex"
  /\ evOut.event.sortIndex = 1
  /\ evEnc.obj["args"] = [k \in {"sort_index"} |-> NumVal(1)]

\* C18: a metadata event with a well-known name fails to decode, with no
\* event returned, when the required key is absent or holds a value of the
\* wrong type; a metadata event with any other name decodes to MetadataMisc
\* with the args unchanged.
C18_MetadataErrors ==
  (reader = "event" /\ IsMetadataInput /\ has(evIn, "name")) =>
    /\ \A kind \in MetadataKinds :
         evIn["name"] = kind.name =>
           /\ ~has(InputArgs, kind.key)
                => evOut.err = ErrNotFound /\ evOut.event = NilEvent
           /\ (has(InputArgs, kind.key) /\ InputArgs[kind.key].t # kind.t)
                => evOut.err = ErrInvalidDataType /\ evOut.event = NilEvent
    /\ (\A kind \in MetadataKinds : evIn["name"] # kind.name)
         => /\ evOut.err = NoErr
            /\ evOut.event.variant = "MetadataMisc"
            /\ evOut.event.args = InputArgs

\* a thread_name event without args is refused for the missing key
C18_Witness ==
  /\ reader = "event"
  /\ IsMetadataInput
  /\ evIn["name"] = MetadataKindThreadName
  /\ ~has(evIn, "args")
  /\ evOut.err = ErrNotFound
  /\ evOut.event = NilEvent

\* the numbers of the counter inputs and their decimal spellings
CounterSpellings == {<<24, "24">>, <<0, "0">>, <<1, "1">>, <<2, "2">>}

\* C19: a Counter event decodes to the same Values entry, the number v,
\* whether the wire value is the JSON number v or the JSON string that
\* spells v.
C19_CounterNumberOrString ==
  (reader = "event" /\ field(evIn, "ph", "") = PhaseCounter) =>
    \A sp \in CounterSpellings : \A k \in DOMAIN InputArgs :
      (InputArgs = [x \in {k} |-> NumVal(sp[1])]
         \/ InputArgs = [x \in {k} |-> StrVal(sp[2])])
        => /\ evOut.err = NoErr
           /\ evOut.event.variant = "Counter"
           /\ evOut.event.args = [x \in {k} |-> NumVal(sp[1])]

\* the string "24" decoded to the number 24
C19_Witness ==
  /\ reader = "event"
  /\ field(evIn, "ph", "") = PhaseCounter
  /\ InputArgs = [k \in {"v"} |-> StrVal("24")]
  /\ evOut.err = NoErr
  /\ evOut.event.args = [k \in {"v"} |-> NumVal(24)]

\* the modern code of each deprecated async code
ModernCode(ph) ==
  CASE ph = "S" -> PhaseAsyncBegin
    [] ph \in {"T", "p"} -> PhaseAsyncInstant
    [] ph = "F" -> PhaseAsyncEnd

\* C20: an event object with a deprecated async code decodes to the event
\* that the same object with the modern code decodes to (S like b, T and p
\* like n, F like e), and encoding the decoded event writes the modern code.
C20_LegacyAliases ==
  (reader \in {"event", "reencoded"}
     /\ field(evIn, "ph", "") \in {"S", "T", "p", "F"}) =>
    /\ evOut.err = NoErr
    /\ evOut.event.variant =
         CASE evIn["ph"] = "S" -> "AsyncBegin"
           [] evIn["ph"] \in {"T", "p"} -> "AsyncInstant"
           [] evIn["ph"] = "F" -> "AsyncEnd"
    /\ evOut = parseJsonEvent(WithMember(evIn, "ph", ModernCode(evIn["ph"])))
    /\ reader = "reencoded"
         => /\ ~evEnc.err
            /\ evEnc.obj["ph"] = ModernCode(evIn["ph"])
            /\ evEnc.obj["ph"] \notin {"S", "T", "p", "F"}

\* an S event with args decoded to AsyncBegin and written back as b
C20_Witness ==
  /\ reader = "reencoded"
  /\ field(evIn, "ph", "") = "S"
  /\ has(evIn, "args")
  /\ evOut.event.variant = "AsyncBegin"
  /\ evOut.event.args = evIn["args"]
  /\ evEnc.obj["ph"] = PhaseAsyncBegin

\* C21: an event object without a ph member, or whose ph is no phase code,
\* makes parseJsonEvent return the unknown-phase error and no event.
C21_UnknownPhaseRejected ==
  (reader = "event" /\ field(evIn, "ph", "") \notin PhaseCodes)
    => evOut.err = ErrUnknownPhase /\ evOut.event = NilEvent

\* an object without ph was refused
C21_Witness ==
  /\ reader = "event"
  /\ ~has(evIn, "ph")
  /\ has(evIn, "name")
  /\ evOut.err = ErrUnknownPhase
  /\ evOut.event = NilEvent

\* C22: an event object without a ts member is refused by parseJsonEvent;
\* it is not decoded with a timestamp filled in.
C22_MissingTimestampRejected ==
  (reader = "event" /\ ~has(evIn, "ts")) => evOut.err # NoErr

\* the displayTimeUnit member of the object input ("" when it has none)
InputUnit == field(objIn, "displayTimeUnit", "")

\* C23: ParseJsonObj accepts a displayTimeUnit of "ms" or "ns" and an absent
\* or empty one, which reads as milliseconds; with any other value it returns
\* the invalid-display-time-unit error and no container.
C23_DisplayTimeUnit ==
  reader = "obj" =>
    /\ InputUnit \notin {"", DisplayTimeMs, DisplayTimeNs}
         => parsed.err = ErrInvalidDisplayTimeUnit /\ parsed.data = NilData
    /\ parsed.err = NoErr
         => parsed.data.displayTimeUnit =
              (IF InputUnit = DisplayTimeNs THEN DisplayTimeNs ELSE DisplayTimeMs)
    /\ (InputUnit \in {"", DisplayTimeMs, DisplayTimeNs}
          /\ field(objIn, "traceEvents", <<>>) = <<>>)
         => parsed.err = NoErr

\* an object with events that decode and the unit "us" was refused
C23_Witness ==
  /\ reader = "obj"
  /\ InputUnit = "us"
  /\ has(objIn, "traceEvents")
  /\ objIn.traceEvents # <<>>
  /\ parseEvents(objIn.traceEvents, <<>>).err = NoErr
  /\ parsed = Failed(ErrInvalidDisplayTimeUnit)

\* the event types that have a StackTrace
StackVariants == {"BeginDuration", "EndDuration", "Complete", "Instant"}

\* the names of the frames of a stack trace, none for a nil one
FrameNames(st) ==
  IF st.nil THEN <<>> ELSE [i \in 1..Len(st.trace) |-> st.trace[i].Name]

\* every frame of the stack trace has a name and nothing else
NameOnly(st) ==
  \A i \in 1..Len(st.trace) :
    st.trace[i].Category = "" /\ st.trace[i].Parent = ""

\* C25: a stack or estack array decodes to a StackTrace with one name-only
\* frame for each string, in order; the encoder writes the frame names as a
\* plain list; the list of names is the same after decoding then encoding
\* and after encoding then decoding.
C25_InlineStackRoundTrip ==
  /\ (reader = "event" /\ evOut.err = NoErr
        /\ evOut.event.variant \in StackVariants)
       => /\ FrameNames(evOut.event.stackTrace) = field(evIn, "stack", <<>>)
          /\ NameOnly(evOut.event.stackTrace)
          /\ NameOnly(evOut.event.endStackTrace)
          /\ evOut.event.variant = "Complete"
               => FrameNames(evOut.event.endStackTrace)
                    = field(evIn, "estack", <<>>)
  /\ (reader \in {"encoded", "reencoded"} /\ ~evEnc.err
        /\ evTyped.variant \in StackVariants)
       => /\ field(evEnc.obj, "stack", <<>>) = FrameNames(evTyped.stackTrace)
          /\ field(evEnc.obj, "estack", <<>>) = FrameNames(evTyped.endStackTrace)
  /\ (reader = "reencoded" /\ ~evEnc.err /\ evTyped.variant \in StackVariants)
       => /\ field(evEnc.obj, "stack", <<>>) = field(evIn, "stack", <<>>)
          /\ evTyped.variant = "Complete"
               => field(evEnc.obj, "estack", <<>>) = field(evIn, "estack", <<>>)
  /\ (reader = "roundtrip" /\ evTyped.variant \in StackVariants)
       => /\ evOut.err = NoErr
          /\ FrameNames(evOut.event.stackTrace) = FrameNames(evTyped.stackTrace)
          /\ FrameNames(evOut.event.endStackTrace)
               = FrameNames(evTyped.endStackTrace)

\* a Complete event with three names in stack was decoded and encoded again
C25_Witness ==
  /\ reader = "reencoded"
  /\ ~evEnc.err
  /\ field(evIn, "ph", "") = PhaseComplete
  /\ field(evIn, "stack", <<>>) = <<"two", "one", "one">>
  /\ Len(evTyped.stackTrace.trace) = 3
  /\ evEnc.obj["stack"] = <<"two", "one", "one">>

\* the stackFrames member of the object that WriteJsonObject wrote
WrittenFrames == field(written.out, "stackFrames", EmptyMap)

\* C26: WriteJsonObject writes every frame of the container's frame table
\* under its id in stackFrames, with its category, name and parent, and
\* ParseJsonObj of what was written gives a table with the same ids and the
\* same category, name and parent under each.
C26_FrameTableRoundTrip ==
  (reader = "reparsed") =>
    /\ DOMAIN WrittenFrames = DOMAIN tefData.stackFrames
    /\ \A id \in DOMAIN tefData.stackFrames :
         /\ field(WrittenFrames[id], "category", "") = tefData.stackFrames[id].Category
         /\ field(WrittenFrames[id], "name", "") = tefData.stackFrames[id].Name
         /\ field(WrittenFrames[id], "parent", "") = tefData.stackFrames[id].Parent
    /\ tefData.traceEvents = <<>> => parsed.err = NoErr
    /\ parsed.err = NoErr => parsed.data.stackFrames = tefData.stackFrames

\* a table of two frames, one the parent of the other, was written and read
C26_Witness ==
  /\ reader = "reparsed"
  /\ DOMAIN tefData.stackFrames = {"a", "b"}
  /\ tefData.stackFrames["b"] = StackFrame("", "run", "a")
  /\ tefData.stackFrames["a"].Parent = ""
  /\ parsed.err = NoErr
  /\ parsed.data.stackFrames["b"].Parent = "a"

\* call i is a Write that returned an error because its event has no encoding
EncodeFailure(i) ==
  /\ log[i].op = "Write"
  /\ log[i].err
  /\ ~log[i].io
  /\ marshalJsonEvent(log[i].e).err

\* C28: a Write that returns an error because its event cannot be encoded
\* emits no byte and leaves the writer as it found it.
C28_EncodeFailureHasNoEffect ==
  /\ \A i \in 1..Len(log) : EncodeFailure(i) => log[i].out = <<>>
  /\ (Len(log) = 1 /\ EncodeFailure(1)) => sw = NewStreamingWriter

\* C29: once a Close has returned nil, no later Write or Close emits a byte.
C29_NoBytesAfterClose ==
  \A i \in Closes : \A j \in 1..Len(log) :
    (i < j /\ ~log[i].err) => log[j].out = <<>>

\* C30: a ClockSync with a sync id and no issue timestamp, encoded and then
\* decoded, decodes without error to a ClockSync with the same sync id and
\* no issue timestamp.
C30_ClockSyncWithoutIssueTs ==
  (reader = "roundtrip" /\ evTyped.variant = "ClockSync" /\ ~evTyped.issueTs.set)
    => /\ evOut.err = NoErr
       /\ evOut.event.variant = "ClockSync"
       /\ evOut.event.syncId = evTyped.syncId
       /\ evOut.event.issueTs = NoInt

\* the calls that returned
Returned == SelectSeq(tracerCalls, LAMBDA c : ~c.panic)

\* the BeginDuration call that returned the n-th Duration
RECURSIVE BeginOf(_, _)
BeginOf(n, i) ==
  IF Returned[i].op = "BeginDuration"
  THEN (IF n = 1 THEN Returned[i] ELSE BeginOf(n - 1, i + 1))
  ELSE BeginOf(n, i + 1)

\* C27: after any sequence of BeginDuration, End and Instant calls the event
\* writer has received one event for each call, in call order: a
\* BeginDuration for a BeginDuration call, for an End call an EndDuration
\* with the name and process id of the BeginDuration that returned its
\* Duration and the timestamp read at the End call, and for an Instant call
\* an Instant with thread scope.
C27_OneEventPerCall ==
  /\ Len(received) = Len(Returned)
  /\ \A i \in 1..Len(Returned) :
       LET c == Returned[i]
           e == received[i]
       IN /\ e.name = c.name
          /\ e.ts = c.time
          /\ c.op = "BeginDuration" => e.variant = "BeginDuration"
          /\ c.op = "Instant"
               => e.variant = "Instant" /\ e.scope = InstantScopeThread
          /\ c.op = "End"
               => /\ e.variant = "EndDuration"
                  /\ \E j \in 1..(i - 1) :
                       /\ Returned[j] = BeginOf(c.d, 1)
                       /\ received[j].variant = "BeginDuration"
                       /\ e.name = received[j].name
                       /\ e.processId = received[j].processId
                       /\ e.processId.set

\* two durations were begun, time passed and the first one was ended
C27_Witness ==
  /\ Len(tracerCalls) = 3
  /\ tracerCalls[1].op = "BeginDuration" /\ tracerCalls[1].name = "a"
  /\ tracerCalls[2].op = "BeginDuration" /\ tracerCalls[2].name = "b"
  /\ tracerCalls[3].op = "End" /\ tracerCalls[3].d = 1 /\ tracerCalls[3].time = 2
  /\ Len(received) = 3
  /\ received[3].variant = "EndDuration"
  /\ received[3].name = "a"
  /\ received[3].ts = 2

\* both goroutines have returned from Write
RaceDone == \A p \in Goroutines : pc[p] = "done"

\* C24: two Write calls that run at the same time on one streaming writer,
\* with nothing to serialise them, can interleave so that the bytes in the
\* sink followed by "]" are no JSON array: whenever both calls find the
\* writer not initialised, "[" is written twice and the output is broken.
C24_ConcurrentWritesBreakArray ==
  (RaceDone /\ \A p \in Goroutines : ~saw[p])
    => /\ Len(SelectSeq(raceSink, LAMBDA t : t.k = "[")) = 2
       /\ ~IsJsonArray(raceSink \o <<RBracket>>)

\* both calls read initialised before either set it, and both returned
C24_Witness ==
  /\ RaceDone
  /\ \A p \in Goroutines : ~saw[p]
  /\ raceSw.initialised
  /\ raceSink[1].k = "["
  /\ raceSink[2].k = "["
  /\ ~IsJsonArray(raceSink \o <<RBracket>>)
====
